---- MODULE Spec2Model ----
(***************************************************************************)
(* SubtreeSync: the repository registry (the flat store of src/src/utils.py *)
(* and the multi-workspace store of src/subtreesync/utils.py), the          *)
(* operations built on it (add, list, remove, split, push) and the command  *)
(* runners.                                                                 *)
(***************************************************************************)
EXTENDS Integers, Sequences, FiniteSets, TLC

VARIABLES
    variant,    \* which registry module the process imports: "flat" | "multi"
    file,       \* content of subtree_repos.json
    perm,       \* access the process has to the file (to its directory while
                \* the file does not exist)
    prev,       \* content of the file when the last operation started
    last,       \* the last operation: its arguments and its result
    cmds,       \* the git commands the last operation ran, in order
    rmtree,     \* the directories the last operation called shutil.rmtree on
    inp,        \* the situation the last pull, push or split ran in: its
                \* arguments, the answers of the user, the results of git
    run,        \* the command runner: its position, its child, its result
    inv         \* two invocations of the tool that save or delete at the
                \* same time: their positions and what they hold in memory

opVars == <<cmds, rmtree, inp>>

vars == <<variant, file, perm, prev, last, cmds, rmtree, inp, run, inv>>

----------------------------------------------------------------------------
(* Values *)

NONE == "<none>"                \* Python None / an absent key

Names == {"lib", "app"}         \* entry names
Remotes == {"https://h/x.git", "https://h/y.git"}
WsNames == {"w1", "w2"}         \* workspace names (last component of a path)
WsPaths == {"/p/w1", "/p/w2", "/p/w2/"}

\* repo_path.split(os.sep)[-1] (interactive.add_repository)
LastComponent(path) ==
    IF path \in {"/p/w1", "/q/w1"} THEN "w1"
    ELSE IF path = "/p/w2" THEN "w2"
    ELSE ""

\* A path as typed or stored: the sequence of its separators "/" and its
\* components, "src/lib" being <<"src", "/", "lib">> and "" being <<>>.
Sep == "/"

\* A wall-clock reading of datetime.now()
Clocks ==
    {[yy |-> "24", mm |-> "03", dd |-> d, time |-> "10:00:00"] : d \in {"05", "06"}}

\* datetime.isoformat(): "<date>T<time>", kept as its three parts
Isoformat(c) == <<"20" \o c.yy \o "-" \o c.mm \o "-" \o c.dd, "T", c.time>>

\* datetime.strftime("%y%m%d")
Strftime_ymd(c) == c.yy \o c.mm \o c.dd

MkEntry(n, r, p, b, sb, t) ==
    [name |-> n, remote |-> r, prefix |-> p, branch |-> b,
     split_branch |-> sb, added_time |-> t]

NoEntry == MkEntry(NONE, NONE, <<>>, NONE, NONE, <<>>)

MkWs(n, p, d, rs) == [name |-> n, path |-> p, is_default |-> d, repos |-> rs]

NoWs == MkWs(NONE, NONE, FALSE, <<>>)

\* the file: absent, not parseable as JSON, {"repos": [...]} or
\* {"repositories": [...], "current_repository": ...}
MkFile(k, rs, ws, c) == [kind |-> k, repos |-> rs, repositories |-> ws, current |-> c]

Absent == MkFile("absent", <<>>, <<>>, NONE)
Corrupt == MkFile("corrupt", <<>>, <<>>, NONE)

\* in-memory configuration of the multi-workspace module
MkConfig(ws, c) == [repositories |-> ws, current_repository |-> c]

EmptyConfig == MkConfig(<<>>, NONE)

----------------------------------------------------------------------------
(* Sequence helpers *)

Range(s) == {s[i] : i \in 1..Len(s)}

\* index of the first element whose name is n, 0 when there is none
RECURSIVE FirstIndex(_, _, _)
FirstIndex(s, n, i) ==
    IF i > Len(s) THEN 0
    ELSE IF s[i].name = n THEN i
    ELSE FirstIndex(s, n, i + 1)

\* a filter that drops the first record whatever its name
Without_DropsFirst(s, n) == IF s = <<>> THEN <<>> ELSE Tail(s)

\* [x for x in s if x.name != n]
RECURSIVE Without(_, _)
Without(s, n) ==
    IF s = <<>> THEN <<>>
    ELSE IF Head(s).name = n THEN Without(Tail(s), n)
    ELSE <<Head(s)>> \o Without(Tail(s), n)

UniqueNames(s) ==
    \A i, j \in 1..Len(s) : s[i].name = s[j].name => i = j

----------------------------------------------------------------------------
(* JSON encoding of the two file forms *)

\* json.dump({"repos": repos}, f)
DumpFlat(repos) == MkFile("legacy", repos, <<>>, NONE)

\* json.dump(config, f)
DumpConfig(config) ==
    MkFile("multi", <<>>, config.repositories, config.current_repository)

\* open(path, 'w') ; json.dump(...): the new content of the file and whether
\* the write raised.  open() fails without write access ("ro", "none") and
\* leaves the file as it was; "wo" is a file that can be written and not
\* read.
WriteFile(f, p, content) ==
    IF p \notin {"rw", "wo"} THEN [file |-> f, raised |-> TRUE]
    ELSE [file |-> content, raised |-> FALSE]

\* open(path, 'r') ; json.load(f): does it raise
ReadRaises(f, p) == p \in {"none", "wo"} \/ f.kind \in {"absent", "corrupt"}

----------------------------------------------------------------------------
(* The flat registry: src/src/utils.py *)

\* ensure_config_exists(): not inside any try block of its callers
EnsureFlat(f, p) ==
    IF f.kind # "absent" THEN [file |-> f, raised |-> FALSE]
    ELSE WriteFile(f, p, DumpFlat(<<>>))

\* config.get("repos", []) of the parsed file
FlatRepos(f) == IF f.kind = "legacy" THEN f.repos ELSE <<>>

\* load_subtree_repos()
FlatLoad(f, p) ==
    LET e == EnsureFlat(f, p) IN
    IF e.raised THEN [file |-> e.file, raised |-> TRUE, val |-> <<>>]
    ELSE [file |-> e.file, raised |-> FALSE,
          val |-> IF ReadRaises(e.file, p) THEN <<>> ELSE FlatRepos(e.file)]

\* Upsert without the search for an existing record
Upsert_AlwaysAppends(repos, e) == Append(repos, e)

\* Upsert that drops the existing record and puts the new one at the end
Upsert_MovesToEnd(repos, e) == Append(Without(repos, e.name), e)

\* the for/else of save_subtree_repo: replace the first record of that name,
\* else append
Upsert(repos, e) ==
    LET i == FirstIndex(repos, e.name, 1) IN
    IF i > 0 THEN [repos EXCEPT ![i] = e] ELSE Append(repos, e)

\* save_subtree_repo(repo_info)
FlatSave(f, p, e) ==
    LET l == FlatLoad(f, p) IN
    IF l.raised THEN [file |-> l.file, ret |-> "raise"]
    ELSE LET w == WriteFile(l.file, p, DumpFlat(Upsert(l.val, e))) IN
         [file |-> w.file, ret |-> IF w.raised THEN "False" ELSE "True"]

\* delete_subtree_repo(name)
FlatDelete(f, p, n) ==
    LET l == FlatLoad(f, p)
        repos == Without(l.val, n)
    IN
    IF l.raised THEN [file |-> l.file, ret |-> "raise"]
    ELSE IF Len(repos) = Len(l.val) THEN [file |-> l.file, ret |-> "False"]
    ELSE LET w == WriteFile(l.file, p, DumpFlat(repos)) IN
         [file |-> w.file, ret |-> IF w.raised THEN "False" ELSE "True"]

----------------------------------------------------------------------------
(* The multi-workspace registry: src/subtreesync/utils.py *)

\* ensure_config_exists()
EnsureMulti(f, p) ==
    IF f.kind # "absent" THEN [file |-> f, raised |-> FALSE]
    ELSE WriteFile(f, p, DumpConfig(EmptyConfig))

\* an upgrade that keeps the workspace and forgets its records
UpgradeConfig_EmptyDefault(f) ==
    IF f.kind = "multi" THEN MkConfig(f.repositories, f.current)
    ELSE IF f.kind = "legacy"
         THEN MkConfig(<<MkWs("Default", ".", TRUE, <<>>)>>, "Default")
         ELSE EmptyConfig

\* the parsed file brought to the multi-workspace form
UpgradeConfig(f) ==
    IF f.kind = "multi" THEN MkConfig(f.repositories, f.current)
    ELSE IF f.kind = "legacy"
         THEN MkConfig(<<MkWs("Default", ".", TRUE, f.repos)>>, "Default")
         ELSE EmptyConfig

\* load_config()
LoadConfig(f, p) ==
    LET e == EnsureMulti(f, p) IN
    IF e.raised THEN [file |-> e.file, raised |-> TRUE, val |-> EmptyConfig]
    ELSE [file |-> e.file, raised |-> FALSE,
          val |-> IF ReadRaises(e.file, p) THEN EmptyConfig
                  ELSE UpgradeConfig(e.file)]

\* save_config(config)
SaveConfig(f, p, config) ==
    LET w == WriteFile(f, p, DumpConfig(config)) IN
    [file |-> w.file, ret |-> IF w.raised THEN "False" ELSE "True"]

\* index of the first workspace with is_default, 0 when there is none
RECURSIVE FirstDefault(_, _)
FirstDefault(ws, i) ==
    IF i > Len(ws) THEN 0
    ELSE IF ws[i].is_default THEN i
    ELSE FirstDefault(ws, i + 1)

\* get_default_repository(), on a loaded configuration
GetDefaultRepository(config) ==
    LET ws == config.repositories
        i == FirstDefault(ws, 1)
    IN
    IF i > 0 THEN ws[i]
    ELSE IF ws # <<>> THEN ws[1] ELSE NoWs

\* get_current_repository(), on a loaded configuration (the function loads
\* the file once for the pointer and once for the list; nothing writes the
\* file in between)
GetCurrentRepository(config) ==
    LET ws == config.repositories
        i == FirstIndex(ws, config.current_repository, 1)
    IN
    IF config.current_repository = NONE THEN GetDefaultRepository(config)
    ELSE IF i > 0 THEN ws[i]
    ELSE GetDefaultRepository(config)

\* load_subtree_repos()
MultiLoad(f, p) ==
    LET c == LoadConfig(f, p)
        cur == GetCurrentRepository(c.val)
    IN
    IF c.raised THEN [file |-> c.file, raised |-> TRUE, val |-> <<>>]
    ELSE [file |-> c.file, raised |-> FALSE,
          val |-> IF cur = NoWs THEN <<>> ELSE cur.repos]

\* the loop of save/delete_subtree_repo that puts current_repo back into the
\* freshly loaded configuration
PutWorkspace(config, w) ==
    LET i == FirstIndex(config.repositories, w.name, 1) IN
    IF i > 0 THEN [config EXCEPT !.repositories[i] = w] ELSE config

\* save_subtree_repo(repo_info)
MultiSave(f, p, e) ==
    LET c == LoadConfig(f, p)
        cur == GetCurrentRepository(c.val)
        upd == [cur EXCEPT !.repos = Upsert(cur.repos, e)]
    IN
    IF c.raised THEN [file |-> c.file, ret |-> "raise"]
    ELSE IF cur = NoWs THEN [file |-> c.file, ret |-> "False"]
    ELSE SaveConfig(c.file, p, PutWorkspace(c.val, upd))

\* delete_subtree_repo(name)
MultiDelete(f, p, n) ==
    LET c == LoadConfig(f, p)
        cur == GetCurrentRepository(c.val)
        repos == Without(cur.repos, n)
        upd == [cur EXCEPT !.repos = repos]
    IN
    IF c.raised THEN [file |-> c.file, ret |-> "raise"]
    ELSE IF cur = NoWs THEN [file |-> c.file, ret |-> "False"]
    ELSE IF Len(repos) = Len(cur.repos) THEN [file |-> c.file, ret |-> "False"]
    ELSE SaveConfig(c.file, p, PutWorkspace(c.val, upd))

\* an add_repository without the promotion of the only workspace
AddRepositoryConfig_NoPromote(config, w) ==
    MkConfig(Upsert(config.repositories, w), config.current_repository)

\* utils.add_repository(repo_info)
AddRepositoryConfig(config, w) ==
    LET ws == Upsert(config.repositories, w) IN
    IF Len(ws) = 1
    THEN MkConfig(<<[ws[1] EXCEPT !.is_default = TRUE]>>, ws[1].name)
    ELSE MkConfig(ws, config.current_repository)

utils_add_repository(f, p, w) ==
    LET c == LoadConfig(f, p) IN
    IF c.raised THEN [file |-> c.file, ret |-> "raise"]
    ELSE SaveConfig(c.file, p, AddRepositoryConfig(c.val, w))

\* set_current_repository(name)
set_current_repository(f, p, n) ==
    LET c == LoadConfig(f, p) IN
    IF c.raised THEN [file |-> c.file, ret |-> "raise"]
    ELSE SaveConfig(c.file, p, [c.val EXCEPT !.current_repository = n])

----------------------------------------------------------------------------
(* The registry interface of the module the process imports *)

load_subtree_repos(v, f, p) ==
    IF v = "flat" THEN FlatLoad(f, p) ELSE MultiLoad(f, p)

save_subtree_repo(v, f, p, e) ==
    IF v = "flat" THEN FlatSave(f, p, e) ELSE MultiSave(f, p, e)

delete_subtree_repo(v, f, p, n) ==
    IF v = "flat" THEN FlatDelete(f, p, n) ELSE MultiDelete(f, p, n)

\* the loop of find_repo_by_name over the loaded collection l
FindIn(l, i) ==
    [file |-> l.file, raised |-> l.raised,
     val |-> IF i > 0 THEN l.val[i] ELSE NoEntry]

FindLoaded(l, n) == FindIn(l, FirstIndex(l.val, n, 1))

\* find_repo_by_name(name): the record found, NoEntry for None
find_repo_by_name(v, f, p, n) == FindLoaded(load_subtree_repos(v, f, p), n)

----------------------------------------------------------------------------
(* Workspace handlers: src/subtreesync/interactive.py *)

\* add_repository(): proceed stands for "the path exists or the user goes on
\* anyway", setCur for the answer to "make it the current workspace?"
interactive_add_repository(f, p, path, proceed, setCur) ==
    LET n == LastComponent(path)
        a == utils_add_repository(f, p, MkWs(n, path, FALSE, <<>>))
        c == set_current_repository(a.file, p, n)
    IN
    IF n = "" \/ ~proceed THEN [file |-> f, ret |-> "False"]
    ELSE IF a.ret # "True" THEN a
    ELSE IF ~setCur THEN a
    ELSE [file |-> c.file, ret |-> IF c.ret = "raise" THEN "raise" ELSE "True"]

\* for r in config["repositories"]: r["is_default"] = (r["name"] == name)
SetDefaultConfig(config, n) ==
    [config EXCEPT !.repositories =
        [i \in 1..Len(config.repositories) |->
            [config.repositories[i] EXCEPT
                !.is_default = (config.repositories[i].name = n)]]]

\* select_repository(): choice is the menu entry, pick the index chosen in
\* select_from_list (0: nothing chosen)
select_repository(f, p, choice, pick, path, proceed, setCur) ==
    LET c == LoadConfig(f, p)
        ws == c.val.repositories
        s == set_current_repository(c.file, p, ws[pick].name)
        d == SaveConfig(c.file, p, SetDefaultConfig(c.val, ws[pick].name))
    IN
    IF c.raised THEN [file |-> c.file, ret |-> "raise"]
    ELSE IF ws = <<>>
    THEN IF choice = 1
         THEN interactive_add_repository(c.file, p, path, proceed, setCur)
         ELSE [file |-> c.file, ret |-> "False"]
    ELSE IF choice = 0 /\ pick \in 1..Len(ws)
    THEN [file |-> s.file, ret |-> IF s.ret = "raise" THEN "raise" ELSE "True"]
    ELSE IF choice = 1
    THEN interactive_add_repository(c.file, p, path, proceed, setCur)
    ELSE IF choice = 2 /\ pick \in 1..Len(ws)
    THEN d
    ELSE [file |-> c.file, ret |-> "False"]

----------------------------------------------------------------------------
(* Paths: what pathlib.Path and the file system make of a stored prefix *)

\* the directory the process runs in
Cwd == <<"p", "w1">>

\* number of separators a path starts with
RECURSIVE LeadingSeps(_)
LeadingSeps(raw) ==
    IF raw # <<>> /\ Head(raw) = Sep THEN 1 + LeadingSeps(Tail(raw)) ELSE 0

\* Path(raw): the root ("" for a relative path; exactly two leading slashes
\* are kept, any other number is one) and the components, where empty
\* components and "." are dropped and ".." is kept
Path(raw) ==
    LET k == LeadingSeps(raw) IN
    [root |-> IF k = 0 THEN "" ELSE IF k = 2 THEN "//" ELSE "/",
     parts |-> SelectSeq(raw, LAMBDA t : t # Sep /\ t # ".")]

RECURSIVE Join(_)
Join(parts) ==
    IF parts = <<>> THEN ""
    ELSE IF Len(parts) = 1 THEN parts[1]
    ELSE parts[1] \o Sep \o Join(Tail(parts))

\* str(path)
StrPath(pp) ==
    IF pp.root = "" /\ pp.parts = <<>> THEN "." ELSE pp.root \o Join(pp.parts)

\* the directory reached from dir by the components: ".." goes to the parent
\* and stays at the file system root
RECURSIVE Walk(_, _)
Walk(dir, parts) ==
    IF parts = <<>> THEN dir
    ELSE IF Head(parts) = ".."
    THEN Walk(IF dir = <<>> THEN <<>> ELSE SubSeq(dir, 1, Len(dir) - 1), Tail(parts))
    ELSE Walk(Append(dir, Head(parts)), Tail(parts))

\* the directory the operating system acts on for the path, as the sequence
\* of its names below the file system root (<<>> is the root itself)
Resolve(pp) == Walk(IF pp.root = "" THEN Cwd ELSE <<>>, pp.parts)

\* path.exists(): the root and the working directory exist, anything else
\* as the file system has it
Exists(pp, there) == IF pp.parts = <<>> THEN TRUE ELSE there

\* str(prefix_path) != "." and str(prefix_path) != "/"
SafeToDelete(pp) == StrPath(pp) # "." /\ StrPath(pp) # "/"

----------------------------------------------------------------------------
(* The git commands the operations build *)

GitCmd(verb, prefix, remote, src, dst) ==
    [verb |-> verb, prefix |-> prefix, remote |-> remote, src |-> src, dst |-> dst]

PlainCmd(verb) == GitCmd(verb, <<>>, NONE, NONE, NONE)

\* result of an operation: the file, the return value ("True", "False",
\* "raise"), the commands run, the rows printed, the directories removed
MkOp(f, ret, cs, rows, rm) ==
    [file |-> f, ret |-> ret, cmds |-> cs, rows |-> rows, rmtree |-> rm]

----------------------------------------------------------------------------
(* add: src/src/add.py *)

\* handle_working_tree_changes(): the commands it runs for the way the user
\* chose and the commands' results
HandleCmds(tree) ==
    <<PlainCmd("status -s")>> \o
    (IF tree \in {"commit", "commit_fail"}
     THEN <<PlainCmd("add ."), PlainCmd("commit")>>
     ELSE IF tree = "add_fail" THEN <<PlainCmd("add .")>>
     ELSE IF tree \in {"stash", "stash_fail"} THEN <<PlainCmd("stash save")>>
     ELSE <<>>)

HandleOk(tree) == tree \in {"commit", "stash"}

\* the commands of the "add the remote" step and whether add goes on
RemoteCmds(name, remote, how) ==
    <<GitCmd("remote add", <<>>, remote, name, NONE)>> \o
    (IF how = "ok" THEN <<>>
     ELSE <<GitCmd("remote get-url", <<>>, NONE, name, NONE)>> \o
          (IF how \in {"update", "update_fail"}
           THEN <<GitCmd("remote set-url", <<>>, remote, name, NONE)>>
           ELSE <<>>))

RemoteOk(how) == how \in {"ok", "same", "update", "keep"}

\* the record add stores: no split_branch key
AddRecord(a, clock) ==
    MkEntry(a.name, a.remote, a.prefix, a.branch, NONE, Isoformat(clock))

\* add_subtree(args)
add_subtree(v, f, p, i) ==
    LET a == i.args
        pre == IF i.tree = "clean" THEN <<>> ELSE HandleCmds(i.tree)
        rem == pre \o RemoteCmds(a.name, a.remote, i.remoteAdd)
        add == GitCmd("subtree add", a.prefix, NONE, a.name, a.branch)
        first == rem \o <<add>>
        retry == first \o HandleCmds(i.retryTree) \o <<add>>
        s == save_subtree_repo(v, f, p, AddRecord(a, i.clock))
        \* the result of save_subtree_repo is only used to print a line
        saved(cs) == MkOp(s.file, IF s.ret = "raise" THEN "raise" ELSE "True",
                          cs, <<>>, {})
    IN
    IF ~i.inRepo THEN MkOp(f, "False", <<>>, <<>>, {})
    ELSE IF i.tree # "clean" /\ ~HandleOk(i.tree) THEN MkOp(f, "False", pre, <<>>, {})
    ELSE IF a.remote = "" \/ a.name = "" \/ a.prefix = <<>>
    THEN MkOp(f, "False", pre, <<>>, {})
    ELSE IF ~i.go THEN MkOp(f, "False", pre, <<>>, {})
    ELSE IF ~RemoteOk(i.remoteAdd) THEN MkOp(f, "False", rem, <<>>, {})
    ELSE IF i.subtreeAdd = "ok" THEN saved(first)
    ELSE IF i.subtreeAdd = "fail" THEN MkOp(f, "False", first, <<>>, {})
    ELSE IF i.subtreeAdd = "modified_stop" THEN MkOp(f, "False", first, <<>>, {})
    ELSE IF ~HandleOk(i.retryTree)
    THEN MkOp(f, "False", first \o HandleCmds(i.retryTree), <<>>, {})
    ELSE IF i.subtreeAdd = "retry_ok" THEN saved(retry)
    ELSE MkOp(f, "False", retry, <<>>, {})

----------------------------------------------------------------------------
(* list: src/src/list.py *)

\* added_time.split("T")[0] when "T" is in added_time
RECURSIVE BeforeT(_)
BeforeT(t) ==
    IF t = <<>> \/ Head(t) = "T" THEN <<>> ELSE <<Head(t)>> \o BeforeT(Tail(t))

\* repo.get("added_time", <placeholder for "unknown">), cut at "T"
DatePart(t) ==
    IF t = <<>> THEN <<"unknown">>
    ELSE IF "T" \in Range(t) THEN BeforeT(t) ELSE t

\* one row of the table
Row(e) ==
    [name |-> e.name, remote |-> e.remote,
     branch |-> IF e.branch = NONE THEN "main" ELSE e.branch,
     prefix |-> e.prefix, added_time |-> DatePart(e.added_time)]

\* list_subtrees(args)
list_subtrees(f, p) ==
    LET c == LoadConfig(f, p)
        cur == GetCurrentRepository(c.val)
        l == MultiLoad(c.file, p)
    IN
    IF c.raised THEN MkOp(c.file, "raise", <<>>, <<>>, {})
    ELSE IF cur = NoWs THEN MkOp(c.file, "True", <<>>, <<>>, {})
    ELSE IF l.raised THEN MkOp(l.file, "raise", <<>>, <<>>, {})
    ELSE MkOp(l.file, "True", <<>>, [k \in 1..Len(l.val) |-> Row(l.val[k])], {})

----------------------------------------------------------------------------
(* remove: src/src/remove.py *)

\* step 3 of a removal, the local files under one prefix: the directories
\* handed to shutil.rmtree, whether the safety check passed and whether
\* rmtree raised
DeleteFiles(prefix, there, rmFails) ==
    LET pp == Path(prefix) IN
    IF ~Exists(pp, there) THEN [rm |-> {}, ok |-> TRUE, raised |-> FALSE]
    ELSE IF SafeToDelete(pp)
    THEN [rm |-> {Resolve(pp)}, ok |-> ~rmFails, raised |-> rmFails]
    ELSE [rm |-> {}, ok |-> FALSE, raised |-> FALSE]

\* a remove_subtree that deletes the local files first and takes the entry
\* out of the registry only when that went well
remove_subtree_FilesFirst(v, f, p, i) ==
    LET l == load_subtree_repos(v, f, p)
        g == find_repo_by_name(v, l.file, p, i.name)
        sel == IF i.name # NONE THEN g.val
               ELSE IF i.pick \in 1..Len(l.val) THEN l.val[i.pick]
               ELSE NoEntry
        d == delete_subtree_repo(v, l.file, p, sel.name)
        fl == DeleteFiles(sel.prefix, i.there, i.rmFails)
    IN
    IF ~i.inRepo \/ (i.dirty /\ ~i.goOn) \/ l.val = <<>> \/ sel = NoEntry \/ ~i.confirm
    THEN MkOp(l.file, "False", <<>>, <<>>, {})
    ELSE IF i.configOnly \/ ~i.deleteFiles THEN MkOp(d.file, d.ret, <<>>, <<>>, {})
    ELSE IF ~fl.ok THEN MkOp(l.file, "False", <<>>, <<>>, fl.rm)
    ELSE MkOp(d.file, d.ret, <<>>, <<>>, fl.rm)

\* remove_subtree(args).  remove_from_taskfile is a name no module defines:
\* the call raises NameError, after the registry was rewritten and before
\* any file is touched.
remove_subtree(v, f, p, i) ==
    LET l == load_subtree_repos(v, f, p)
        g == find_repo_by_name(v, l.file, p, i.name)
        sel == IF i.name # NONE THEN g.val
               ELSE IF i.pick \in 1..Len(l.val) THEN l.val[i.pick]
               ELSE NoEntry
        d == delete_subtree_repo(v, l.file, p, sel.name)
        fl == DeleteFiles(sel.prefix, i.there, i.rmFails)
    IN
    IF ~i.inRepo THEN MkOp(f, "False", <<>>, <<>>, {})
    ELSE IF i.dirty /\ ~i.goOn THEN MkOp(f, "False", <<>>, <<>>, {})
    ELSE IF l.raised THEN MkOp(l.file, "raise", <<>>, <<>>, {})
    ELSE IF l.val = <<>> THEN MkOp(l.file, "False", <<>>, <<>>, {})
    ELSE IF sel = NoEntry THEN MkOp(l.file, "False", <<>>, <<>>, {})
    ELSE IF ~i.confirm THEN MkOp(l.file, "False", <<>>, <<>>, {})
    ELSE IF d.ret = "raise" \/ i.deleteTaskfile
    THEN MkOp(d.file, "raise", <<>>, <<>>, {})
    ELSE IF i.configOnly \/ ~i.deleteFiles THEN MkOp(d.file, d.ret, <<>>, <<>>, {})
    ELSE MkOp(d.file, IF d.ret = "True" /\ fl.ok THEN "True" ELSE "False",
              <<>>, <<>>, fl.rm)

\* the loop of remove_all_subtrees over the loaded records
RECURSIVE RemoveEach(_, _, _, _, _)
RemoveEach(v, st, p, repos, i) ==
    IF repos = <<>> \/ st.raised THEN st
    ELSE LET e == Head(repos)
             d == delete_subtree_repo(v, st.file, p, e.name)
             fl == IF i.deleteFiles THEN DeleteFiles(e.prefix, i.there, i.rmFails)
                   ELSE [rm |-> {}, ok |-> TRUE, raised |-> FALSE]
         IN
         IF d.ret = "raise" \/ i.deleteTaskfile
         THEN [st EXCEPT !.file = d.file, !.raised = TRUE]
         ELSE RemoveEach(v, [file |-> d.file, rm |-> st.rm \cup fl.rm,
                             failed |-> st.failed \/ fl.raised, raised |-> FALSE],
                         p, Tail(repos), i)

\* a remove_all_subtrees that does not compare the text typed with
\* 'DELETE ALL SUBTREES'
remove_all_subtrees_AnyText(v, f, p, i) ==
    LET l == load_subtree_repos(v, f, p)
        st == RemoveEach(v, [file |-> l.file, rm |-> {}, failed |-> FALSE,
                             raised |-> FALSE], p, l.val, i)
    IN
    IF ~i.batch \/ l.val = <<>> \/ ~i.confirm THEN MkOp(l.file, "False", <<>>, <<>>, {})
    ELSE MkOp(st.file,
              IF st.raised THEN "raise" ELSE IF st.failed THEN "False" ELSE "True",
              <<>>, <<>>, st.rm)

\* remove_all_subtrees(args)
remove_all_subtrees(v, f, p, i) ==
    LET l == load_subtree_repos(v, f, p)
        st == RemoveEach(v, [file |-> l.file, rm |-> {}, failed |-> FALSE,
                             raised |-> FALSE], p, l.val, i)
    IN
    IF ~i.batch THEN MkOp(f, "False", <<>>, <<>>, {})
    ELSE IF l.raised THEN MkOp(l.file, "raise", <<>>, <<>>, {})
    ELSE IF l.val = <<>> THEN MkOp(l.file, "False", <<>>, <<>>, {})
    ELSE IF ~i.confirm \/ ~i.verify THEN MkOp(l.file, "False", <<>>, <<>>, {})
    ELSE MkOp(st.file,
              IF st.raised THEN "raise" ELSE IF st.failed THEN "False" ELSE "True",
              <<>>, <<>>, st.rm)

----------------------------------------------------------------------------
(* split: src/src/split.py *)

\* get_split_branch_name(repo_name)
get_split_branch_name(name, clock) == name \o "#ST" \o Strftime_ymd(clock)

\* check_branch_for_prefix(): the commands it runs; its result is not used
CheckBranchCmds(prefix, branchFound) ==
    IF branchFound THEN <<PlainCmd("branch")>>
    ELSE <<PlainCmd("branch"), GitCmd("log --grep", prefix, NONE, NONE, NONE)>>

\* the record push_subtree and split_subtree work on: repo_info when it is
\* given, else the record found under args.name
RepoInfo(v, f, p, i, e) ==
    IF e # NoEntry THEN e
    ELSE IF i.name = NONE THEN NoEntry
    ELSE find_repo_by_name(v, f, p, i.name).val

\* is split_all_subtrees in copy mode when its loop starts: copy_only was
\* asked for and the clipboard library is there ("nolib_...": it is not, and
\* the user cancels, or goes on and has every command run or stopped)
CopyOnly(copy) == copy \in {"copied", "copy_failed_go", "copy_failed_stop"}

\* split_subtree from "name = repo_info.get(...)" on, info being the record
SplitRecord(f, i, info) ==
    LET split_branch == get_split_branch_name(info.name, i.clock)
        check == CheckBranchCmds(info.prefix, i.branchFound)
        cmd == GitCmd("subtree split", info.prefix, NONE, split_branch, NONE)
    IN
    IF info = NoEntry THEN MkOp(f, "False", <<>>, <<>>, {})
    ELSE IF i.copy = "copied" THEN MkOp(f, "True", check, <<>>, {})
    ELSE IF i.copy \in {"copy_failed_stop", "nolib_stop"}
    THEN MkOp(f, "False", check, <<>>, {})
    ELSE MkOp(f, IF i.splitOk /\ info.name \notin i.fails THEN "True" ELSE "False",
              Append(check, cmd), <<>>, {})

\* split_subtree(args, repo_info)
split_subtree(v, f, p, i, e) == SplitRecord(f, i, RepoInfo(v, f, p, i, e))

\* the checks split_all_subtrees and push_all_subtrees start with
GateCmds(gate) ==
    IF gate = "norepo" THEN <<PlainCmd("rev-parse")>>
    ELSE <<PlainCmd("rev-parse"), PlainCmd("status --porcelain")>>

\* [repo for repo in repos if repo.get("name") == args.name], all when no
\* name is given
Selected(repos, name) ==
    IF name = NONE THEN repos ELSE SelectSeq(repos, LAMBDA e : e.name = name)

\* one more record e done in the loops of pull_all, split_all and push_all
\* with the result s: its commands are added, success_count or fail_count
\* goes up by one
Counted(st, e, s) ==
    [cmds |-> st.cmds \o s.cmds,
     success_count |-> st.success_count + (IF s.ret = "True" THEN 1 ELSE 0),
     fail_count |-> st.fail_count + (IF s.ret = "True" THEN 0 ELSE 1),
     handled |-> Append(st.handled, e.name)]

\* the loop of split_all_subtrees; in copy mode it stops after the first
\* record
RECURSIVE SplitEach(_, _, _, _)
SplitEach(f, i, repos, st) ==
    IF repos = <<>> THEN st
    ELSE IF CopyOnly(i.copy) THEN Counted(st, Head(repos), SplitRecord(f, i, Head(repos)))
    ELSE SplitEach(f, i, Tail(repos),
                   Counted(st, Head(repos), SplitRecord(f, i, Head(repos))))

\* the summary printed at the end of a batch, with the names of the records
\* in the order they were handled
Summary(st) ==
    [success_count |-> st.success_count, fail_count |-> st.fail_count,
     handled |-> st.handled]

\* the end of split_all_subtrees and push_all_subtrees: l is the loaded
\* collection, sel the records selected, st the outcome of the loop
AllResult(f, i, l, sel, st) ==
    IF i.gate \in {"norepo", "dirty"} THEN MkOp(f, "False", GateCmds(i.gate), <<>>, {})
    ELSE IF l.raised THEN MkOp(l.file, "raise", GateCmds(i.gate), <<>>, {})
    ELSE IF l.val = <<>> \/ sel = <<>> THEN MkOp(l.file, "False", GateCmds(i.gate), <<>>, {})
    ELSE IF ~i.yes /\ ~i.confirm THEN MkOp(l.file, "False", GateCmds(i.gate), <<>>, {})
    ELSE MkOp(l.file, IF st.fail_count = 0 THEN "True" ELSE "False",
              GateCmds(i.gate) \o st.cmds, <<Summary(st)>>, {})

NoneDone == [cmds |-> <<>>, success_count |-> 0, fail_count |-> 0, handled |-> <<>>]

\* "copy needs pyperclip; go on and run the commands?" answered no, asked
\* once the selection is confirmed: r is the result otherwise
CancelledForClipboard(i, l, r) ==
    IF i.copy = "nolib_cancel" /\ r.rows # <<>>
    THEN MkOp(l.file, "False", GateCmds(i.gate), <<>>, {})
    ELSE r

SplitAllLoaded(f, i, l, sel) ==
    CancelledForClipboard(i, l,
        AllResult(f, i, l, sel, SplitEach(l.file, i, sel, NoneDone)))

\* split_all_subtrees(args)
split_all_subtrees(v, f, p, i) ==
    SplitAllLoaded(f, i, load_subtree_repos(v, f, p),
                   Selected(load_subtree_repos(v, f, p).val, i.name))

----------------------------------------------------------------------------
(* push: src/src/push.py *)

\* a push_subtree that goes on to the push command whatever the split step
\* returned
PushCommand_IgnoresSplit(f, i, info, perform_split, s) ==
    MkOp(f, IF i.pushOk /\ info.name \notin i.fails THEN "True" ELSE "False",
         Append(IF perform_split THEN s.cmds ELSE <<>>,
                GitCmd("push", <<>>, info.remote, info.split_branch,
                       IF info.branch = NONE THEN "main" ELSE info.branch)),
         <<>>, {})

\* push_subtree after its split step: s is the result of split_subtree
PushCommand(f, i, info, perform_split, s) ==
    LET branch == IF info.branch = NONE THEN "main" ELSE info.branch
        pre == IF perform_split THEN s.cmds ELSE <<>>
        cmd == GitCmd("push", <<>>, info.remote, info.split_branch, branch)
    IN
    IF perform_split /\ s.ret # "True" THEN MkOp(f, "False", pre, <<>>, {})
    ELSE MkOp(f, IF i.pushOk /\ info.name \notin i.fails THEN "True" ELSE "False",
              Append(pre, cmd), <<>>, {})

\* a push_subtree that falls back on the derived name when the record has
\* no split_branch
PushRecord_DerivesBranch(f, i, info) ==
    IF info = NoEntry THEN MkOp(f, "False", <<>>, <<>>, {})
    ELSE PushCommand(f, i,
            [info EXCEPT !.split_branch =
                IF @ = NONE THEN get_split_branch_name(info.name, i.clock) ELSE @],
            IF ~i.yes THEN i.askSplit ELSE i.forceSplit,
            SplitRecord(f, [i EXCEPT !.copy = "no"], info))

\* push_subtree from "name = repo_info.get(...)" on, info being the record
PushRecord(f, i, info) ==
    IF info = NoEntry THEN MkOp(f, "False", <<>>, <<>>, {})
    ELSE IF info.split_branch = NONE \/ info.split_branch = ""
    THEN MkOp(f, "False", <<>>, <<>>, {})
    ELSE PushCommand(f, i, info, IF ~i.yes THEN i.askSplit ELSE i.forceSplit,
                     SplitRecord(f, [i EXCEPT !.copy = "no"], info))

\* push_subtree(args, repo_info)
push_subtree(v, f, p, i, e) == PushRecord(f, i, RepoInfo(v, f, p, i, e))

\* a loop that handles the first record and leaves the rest
PushEach_FirstOnly(f, i, repos, st) ==
    IF repos = <<>> THEN st
    ELSE [cmds |-> PushRecord(f, i, Head(repos)).cmds,
          success_count |-> IF PushRecord(f, i, Head(repos)).ret = "True" THEN 1 ELSE 0,
          fail_count |-> IF PushRecord(f, i, Head(repos)).ret = "True" THEN 0 ELSE 1,
          handled |-> <<Head(repos).name>>]

\* the loop of push_all_subtrees
RECURSIVE PushEach(_, _, _, _)
PushEach(f, i, repos, st) ==
    IF repos = <<>> THEN st
    ELSE PushEach(f, i, Tail(repos),
                  Counted(st, Head(repos), PushRecord(f, i, Head(repos))))

PushAllLoaded(f, i, l, sel) ==
    AllResult(f, i, l, sel, PushEach(l.file, i, sel, NoneDone))

\* push_all_subtrees(args)
push_all_subtrees(v, f, p, i) ==
    PushAllLoaded(f, i, load_subtree_repos(v, f, p),
                  Selected(load_subtree_repos(v, f, p).val, i.name))

\* the records picked in select_repos_for_action: none (empty input), the
\* first row, or all rows ("0")
MenuSelected(repos, sel) ==
    IF sel = "none" \/ repos = <<>> THEN <<>>
    ELSE IF sel = "first" THEN <<Head(repos)>>
    ELSE repos

\* the end of the push branch of run_interactive_mode: st is the outcome of
\* calling push_subtree for each record picked
MenuPushResult(l, sel, st) ==
    IF l.raised THEN MkOp(l.file, "raise", <<>>, <<>>, {})
    ELSE IF l.val = <<>> \/ sel = <<>> THEN MkOp(l.file, "False", <<>>, <<>>, {})
    ELSE MkOp(l.file, IF st.fail_count = 0 THEN "True" ELSE "False", st.cmds, <<>>, {})

\* one record picked: push_subtree with yes = False; several: push_subtree
\* with yes = True for each; force_split is False in both cases
MenuPushLoaded(i, l, sel) ==
    MenuPushResult(l, sel,
        PushEach(l.file, [i EXCEPT !.yes = (Len(sel) > 1), !.forceSplit = FALSE],
                 sel, NoneDone))

\* run_interactive_mode(), mode "push"
menu_push(v, f, p, i) ==
    MenuPushLoaded(i, load_subtree_repos(v, f, p),
                   MenuSelected(load_subtree_repos(v, f, p).val, i.sel))

----------------------------------------------------------------------------
(* pull: src/src/pull.py *)

\* pull_subtree(repo_info, args): git subtree pull --prefix=<prefix> <name>
\* <branch> --squash
PullRecord(f, i, info) ==
    MkOp(f, IF info.name \notin i.fails THEN "True" ELSE "False",
         <<GitCmd("subtree pull", info.prefix, info.name,
                  IF info.branch = NONE THEN "main" ELSE info.branch, NONE)>>,
         <<>>, {})

\* the loop of pull_all_subtrees
RECURSIVE PullEach(_, _, _, _)
PullEach(f, i, repos, st) ==
    IF repos = <<>> THEN st
    ELSE PullEach(f, i, Tail(repos),
                  Counted(st, Head(repos), PullRecord(f, i, Head(repos))))

\* the end of pull_all_subtrees: a working tree with changes, or one whose
\* state cannot be told, only asks whether to go on
PullAllResult(f, i, l, sel, st) ==
    IF i.gate = "norepo" THEN MkOp(f, "False", <<>>, <<>>, {})
    ELSE IF i.gate \in {"dirty", "unknown"} /\ ~i.goOn THEN MkOp(f, "False", <<>>, <<>>, {})
    ELSE IF l.raised THEN MkOp(l.file, "raise", <<>>, <<>>, {})
    ELSE IF l.val = <<>> \/ sel = <<>> THEN MkOp(l.file, "False", <<>>, <<>>, {})
    ELSE IF ~i.yes /\ ~i.confirm THEN MkOp(l.file, "False", <<>>, <<>>, {})
    ELSE MkOp(l.file, IF st.fail_count = 0 THEN "True" ELSE "False",
              st.cmds, <<Summary(st)>>, {})

PullAllLoaded(f, i, l, sel) ==
    PullAllResult(f, i, l, sel, PullEach(l.file, i, sel, NoneDone))

\* pull_all_subtrees(args)
pull_all_subtrees(v, f, p, i) ==
    PullAllLoaded(f, i, load_subtree_repos(v, f, p),
                  Selected(load_subtree_repos(v, f, p).val, i.name))

----------------------------------------------------------------------------
(* The command runners: run_command and run_git_command_stream (streaming), *)
(* split.run_git_command (buffered), run_command_direct (direct)            *)

MaxChunks == 2      \* most chunks a child writes to one of its streams
PipeCap == 1        \* chunks a pipe holds before the writer blocks

RunnerKinds == {"streaming", "buffered", "direct"}

NotFoundMsg == "command or program not found, make sure it is in PATH"
Errno2Msg == "[Errno 2] No such file or directory"
Errno13Msg == "[Errno 13] Permission denied"
UnexpectedMsg == "unexpected error while running the command"

\* the runner before it is called
IdleRun ==
    [kind |-> NONE, pc |-> "idle", launch |-> NONE, child |-> "none", code |-> 0,
     ignoresTerm |-> FALSE, outLeft |-> 0, errLeft |-> 0, outq |-> 0, errq |-> 0,
     wroteOut |-> FALSE, wroteErr |-> FALSE, sentOut |-> 0, sentErr |-> 0,
     gotOut |-> 0, gotErr |-> 0, termSent |-> FALSE, killSent |-> FALSE,
     result |-> "none", success |-> FALSE, msg |-> ""]

\* a success flag that also wants a silent stderr
Success_QuietStderr(code, wroteErr) == code = 0 /\ ~wroteErr

\* return_code == 0
Success(code, wroteErr) == code = 0

\* a runner that lets the launch error out
OnLaunchError_Raises(kind, launch) == [result |-> "raised", success |-> FALSE, msg |-> ""]

\* what the handlers make of Popen / subprocess.run failing to start the
\* program: FileNotFoundError when it does not exist, another OSError when
\* it may not be executed
OnLaunchError(kind, launch) ==
    [result |-> "returned", success |-> FALSE,
     msg |-> IF kind = "buffered"
             THEN (IF launch = "missing" THEN Errno2Msg ELSE Errno13Msg)
             ELSE (IF launch = "missing" THEN NotFoundMsg ELSE UnexpectedMsg)]

\* where the runner is once the child runs
FirstPc(kind) ==
    IF kind = "streaming" THEN "read_stdout"
    ELSE IF kind = "buffered" THEN "communicate"
    ELSE "wait"

\* has the child a pipe to the runner for its output
Piped(kind) == kind # "direct"

----------------------------------------------------------------------------
(* What the file holds *)

\* the collection of the current workspace as the file content f holds it
StoredRepos(v, f) ==
    IF v = "flat" THEN FlatRepos(f)
    ELSE LET cur == GetCurrentRepository(UpgradeConfig(f)) IN
         IF cur = NoWs THEN <<>> ELSE cur.repos

\* every collection the file content f holds
AllCollections(f) ==
    {f.repos} \cup {f.repositories[i].repos : i \in 1..Len(f.repositories)}

----------------------------------------------------------------------------
(* The registry as a state machine *)

\* no pull, push or split has run yet
NoInput == [name |-> NONE]

\* the two invocations that may run at the same time
Writers == {"A", "B"}

\* an invocation that has not started: its operation and argument, the
\* pointer, the workspace and the collection it has read, the number of
\* writes the file had seen when it read the collection and the number
\* its own write made
IdleWriter ==
    [pc |-> "idle", op |-> NONE, entry |-> NoEntry, cur |-> NONE, ws |-> NoWs,
     snap |-> <<>>, out |-> Absent, readAt |-> 0, wroteAt |-> 0]

NoInvocations == [proc |-> [w \in Writers |-> IdleWriter], writes |-> 0]

MkLast(o, n, e, r, out) == [op |-> o, name |-> n, entry |-> e, ret |-> r, out |-> out]

\* the records the callers of save_subtree_repo build
SaveEntries ==
    {MkEntry("lib", r, <<"src", Sep, "lib">>, "main", NONE,
             Isoformat([yy |-> "24", mm |-> "03", dd |-> "05", time |-> "10:00:00"])) :
        r \in Remotes}
    \cup {MkEntry("app", "https://h/x.git", <<"src", Sep, "app">>, "dev", NONE,
                 Isoformat([yy |-> "24", mm |-> "03", dd |-> "06", time |-> "10:00:00"]))}

\* the answers select_repository and add_repository can be given: the menu
\* entry, the index picked in the list (0: none), the path typed
SelectInputs ==
    {[choice |-> 0, pick |-> k, path |-> "/p/w1", proceed |-> TRUE, setCur |-> TRUE] :
        k \in 0..2}
    \cup {[choice |-> 1, pick |-> 0, path |-> q, proceed |-> TRUE, setCur |-> c] :
        q \in WsPaths, c \in BOOLEAN}
    \cup {[choice |-> 1, pick |-> 0, path |-> "/p/w1", proceed |-> FALSE, setCur |-> TRUE]}
    \cup {[choice |-> 2, pick |-> k, path |-> "/p/w1", proceed |-> TRUE, setCur |-> TRUE] :
        k \in 1..2}
    \cup {[choice |-> 3, pick |-> 0, path |-> "/p/w1", proceed |-> TRUE, setCur |-> TRUE]}

Init ==
    /\ variant \in {"flat", "multi"}
    /\ file = Absent
    /\ perm = "rw"
    /\ prev = Absent
    /\ last = MkLast("init", NONE, NoEntry, "ok", <<>>)
    /\ cmds = <<>>
    /\ rmtree = {}
    /\ inp = NoInput
    /\ run = IdleRun
    /\ inv = NoInvocations

\* the tool installed where the user may not write: the file does not exist
\* and cannot be created
InitInstall ==
    /\ variant \in {"flat", "multi"}
    /\ file = Absent
    /\ perm \in {"rw", "ro"}
    /\ prev = Absent
    /\ last = MkLast("init", NONE, NoEntry, "ok", <<>>)
    /\ cmds = <<>>
    /\ rmtree = {}
    /\ inp = NoInput
    /\ run = IdleRun
    /\ inv = NoInvocations

Load ==
    LET r == load_subtree_repos(variant, file, perm) IN
    /\ file' = r.file
    /\ prev' = file
    /\ last' = MkLast("load", NONE, NoEntry,
                      IF r.raised THEN "raise" ELSE "ok", r.val)
    /\ UNCHANGED <<variant, perm, opVars, run, inv>>

Find ==
    \E n \in Names :
        LET r == find_repo_by_name(variant, file, perm, n) IN
        /\ file' = r.file
        /\ prev' = file
        /\ last' = MkLast("find", n, r.val,
                          IF r.raised THEN "raise" ELSE "ok", <<>>)
        /\ UNCHANGED <<variant, perm, opVars, run, inv>>

Save ==
    \E e \in SaveEntries :
        LET r == save_subtree_repo(variant, file, perm, e) IN
        /\ file' = r.file
        /\ prev' = file
        /\ last' = MkLast("save", e.name, e, r.ret, <<>>)
        /\ UNCHANGED <<variant, perm, opVars, run, inv>>

Delete ==
    \E n \in Names :
        LET r == delete_subtree_repo(variant, file, perm, n) IN
        /\ file' = r.file
        /\ prev' = file
        /\ last' = MkLast("delete", n, NoEntry, r.ret, <<>>)
        /\ UNCHANGED <<variant, perm, opVars, run, inv>>

SelectRepository ==
    /\ variant = "multi"
    /\ \E i \in SelectInputs :
        LET r == select_repository(file, perm, i.choice, i.pick, i.path,
                                   i.proceed, i.setCur) IN
        /\ file' = r.file
        /\ prev' = file
        /\ last' = MkLast("select", NONE, NoEntry, r.ret, <<>>)
    /\ UNCHANGED <<variant, perm, opVars, run, inv>>

\* the environment changes the access rights of the existing file
Chmod ==
    /\ file.kind # "absent"
    /\ perm' \in {"rw", "ro", "none"} \ {perm}
    /\ prev' = file
    /\ last' = MkLast("chmod", NONE, NoEntry, "ok", <<>>)
    /\ UNCHANGED <<variant, file, opVars, run, inv>>

\* a writer killed between open(path, 'w') and the end of json.dump leaves a
\* truncated file (the store is rewritten in place, without a temporary file)
KilledWhileWriting ==
    /\ perm = "rw"
    /\ file.kind \in {"legacy", "multi"}
    /\ file' = Corrupt
    /\ prev' = file
    /\ last' = MkLast("killed", NONE, NoEntry, "ok", <<>>)
    /\ UNCHANGED <<variant, perm, opVars, run, inv>>

Next ==
    \/ Load \/ Find \/ Save \/ Delete \/ SelectRepository
    \/ Chmod \/ KilledWhileWriting

Spec == Init /\ [][Next]_vars

SpecInstall == InitInstall /\ [][Next]_vars

----------------------------------------------------------------------------
(* The workspaces as a state machine *)

\* collections as the flat module leaves them in a file of the legacy form
LegacyLists ==
    {<<>>} \cup {<<e>> : e \in {e \in SaveEntries : e.name = "lib"}}
    \cup {<<e1, e2>> : e1 \in {e \in SaveEntries : e.name = "lib"},
                       e2 \in {e \in SaveEntries : e.name = "app"}}

\* the multi-workspace module finds no file, or a file of the legacy form
InitWorkspaces ==
    /\ variant = "multi"
    /\ file \in {Absent} \cup {DumpFlat(l) : l \in LegacyLists}
    /\ perm = "rw"
    /\ prev = Absent
    /\ last = MkLast("init", NONE, NoEntry, "ok", <<>>)
    /\ cmds = <<>>
    /\ rmtree = {}
    /\ inp = NoInput
    /\ run = IdleRun
    /\ inv = NoInvocations

MaxWorkspaces == 2  \* rows of the workspace list a user can pick from

\* the workspace records add_repository(repo_info) can be handed
WorkspaceInfos ==
    {MkWs(LastComponent(q), q, d, <<>>) : q \in {"/p/w1"}, d \in BOOLEAN}

\* the names set_current_repository(name) can be handed
CurrentNames == WsNames \cup {"Default"}

\* utils.add_repository(repo_info)
AddRepository ==
    \E w \in WorkspaceInfos :
        LET r == utils_add_repository(file, perm, w) IN
        /\ file' = r.file
        /\ prev' = file
        /\ last' = MkLast("add_workspace", w.name, NoEntry, r.ret, <<>>)
        /\ UNCHANGED <<variant, perm, opVars, run, inv>>

\* utils.set_current_repository(name)
SetCurrentRepository ==
    \E n \in CurrentNames :
        LET r == set_current_repository(file, perm, n) IN
        /\ file' = r.file
        /\ prev' = file
        /\ last' = MkLast("set_current", n, NoEntry, r.ret, <<>>)
        /\ UNCHANGED <<variant, perm, opVars, run, inv>>

\* select_repository(), menu entry "set the default workspace": pick is the
\* row chosen in the list
SetDefaultRepository ==
    \E k \in 1..MaxWorkspaces :
        LET r == select_repository(file, perm, 2, k, "/p/w1", TRUE, TRUE) IN
        /\ file' = r.file
        /\ prev' = file
        /\ last' = MkLast("set_default", NONE, NoEntry, r.ret, <<>>)
        /\ UNCHANGED <<variant, perm, opVars, run, inv>>

NextWorkspaces ==
    \/ Load \/ Save \/ Delete
    \/ AddRepository \/ SetCurrentRepository \/ SetDefaultRepository

SpecWorkspaces == InitWorkspaces /\ [][NextWorkspaces]_vars

----------------------------------------------------------------------------
(* The operations as a state machine *)

Clock1 == [yy |-> "24", mm |-> "03", dd |-> "05", time |-> "10:00:00"]

\* what add is asked to add: remote, name, prefix, branch
AddArgs ==
    {[name |-> "lib", remote |-> "https://h/x.git", prefix |-> <<"src", Sep, "lib">>,
      branch |-> "main"],
     [name |-> "app", remote |-> "https://h/y.git", prefix |-> <<"src", Sep, "app">>,
      branch |-> "dev"]}

AddBase ==
    [inRepo |-> TRUE, tree |-> "clean", go |-> TRUE, remoteAdd |-> "ok",
     subtreeAdd |-> "ok", retryTree |-> "stash", clock |-> Clock1,
     args |-> [name |-> "lib", remote |-> "https://h/x.git",
               prefix |-> <<"src", Sep, "lib">>, branch |-> "main"]]

\* the situations add runs in: the arguments and the time of day, the state
\* of the working tree, the answers of the user, the results of git
AddInputs ==
    {[AddBase EXCEPT !.args = a, !.clock = c] : a \in AddArgs, c \in Clocks}
    \cup {[AddBase EXCEPT !.args.prefix = <<>>], [AddBase EXCEPT !.inRepo = FALSE],
          [AddBase EXCEPT !.go = FALSE]}
    \cup {[AddBase EXCEPT !.tree = t] :
            t \in {"commit", "commit_fail", "add_fail", "stash", "stash_fail", "cancel"}}
    \cup {[AddBase EXCEPT !.remoteAdd = h] :
            h \in {"same", "update", "update_fail", "keep", "fail"}}
    \cup {[AddBase EXCEPT !.subtreeAdd = s, !.retryTree = t] :
            s \in {"fail", "modified_stop", "retry_ok", "retry_fail"},
            t \in {"stash", "cancel"}}

RemoveBase ==
    [inRepo |-> TRUE, dirty |-> FALSE, goOn |-> FALSE, name |-> "lib", pick |-> 0,
     configOnly |-> FALSE, deleteFiles |-> TRUE, deleteTaskfile |-> FALSE,
     confirm |-> TRUE, there |-> TRUE, rmFails |-> FALSE, noFiles |-> FALSE]

\* the situations remove runs in: the name given or the row picked (0: the
\* user quits), the answers to the prompts, the state of the file system
RemoveInputs ==
    {[RemoveBase EXCEPT !.name = n, !.deleteFiles = df, !.deleteTaskfile = dt,
                        !.there = th] :
        n \in Names, df \in BOOLEAN, dt \in BOOLEAN, th \in BOOLEAN}
    \cup {[RemoveBase EXCEPT !.name = NONE, !.pick = k] : k \in 0..2}
    \cup {[RemoveBase EXCEPT !.inRepo = FALSE], [RemoveBase EXCEPT !.dirty = TRUE],
          [RemoveBase EXCEPT !.dirty = TRUE, !.goOn = TRUE],
          [RemoveBase EXCEPT !.configOnly = TRUE], [RemoveBase EXCEPT !.confirm = FALSE],
          [RemoveBase EXCEPT !.rmFails = TRUE]}
    \cup {[RemoveBase EXCEPT !.noFiles = TRUE, !.deleteFiles = df, !.configOnly = co] :
            df \in BOOLEAN, co \in BOOLEAN}

\* the situations remove --batch runs in
RemoveAllInputs ==
    {[batch |-> TRUE, confirm |-> TRUE, verify |-> TRUE, deleteFiles |-> df,
      deleteTaskfile |-> dt, there |-> th, rmFails |-> rf, noFiles |-> FALSE] :
        df \in BOOLEAN, dt \in BOOLEAN, th \in BOOLEAN, rf \in BOOLEAN}
    \cup {[batch |-> b, confirm |-> c, verify |-> v, deleteFiles |-> TRUE,
           deleteTaskfile |-> FALSE, there |-> TRUE, rmFails |-> FALSE,
           noFiles |-> nf] :
        b \in BOOLEAN, c \in BOOLEAN, v \in BOOLEAN, nf \in BOOLEAN}

PushBase ==
    [name |-> "lib", gate |-> "ok", yes |-> TRUE, confirm |-> TRUE, askSplit |-> FALSE,
     forceSplit |-> FALSE, copy |-> "no", branchFound |-> FALSE, splitOk |-> TRUE,
     pushOk |-> TRUE, fails |-> {}, goOn |-> FALSE, sel |-> "all", clock |-> Clock1]

\* the situations push runs in: the name given, --yes and --force-split or
\* the answer to "split first?", the time of day, the results of git
PushInputs ==
    {[PushBase EXCEPT !.name = n, !.yes = m[1], !.askSplit = m[2],
                      !.forceSplit = m[3], !.clock = c] :
        n \in Names \cup {NONE}, c \in Clocks,
        m \in {<<TRUE, FALSE, FALSE>>, <<TRUE, FALSE, TRUE>>,
               <<FALSE, TRUE, FALSE>>, <<FALSE, FALSE, FALSE>>,
               <<FALSE, FALSE, TRUE>>}}
    \cup {[PushBase EXCEPT !.gate = g, !.name = n] :
            g \in {"norepo", "dirty", "unknown"}, n \in {"lib", NONE}}
    \cup {[PushBase EXCEPT !.name = NONE, !.fails = {n}] : n \in Names}
    \cup {[PushBase EXCEPT !.yes = FALSE, !.confirm = FALSE],
          [PushBase EXCEPT !.branchFound = TRUE],
          [PushBase EXCEPT !.forceSplit = TRUE, !.branchFound = TRUE],
          [PushBase EXCEPT !.forceSplit = TRUE, !.splitOk = FALSE],
          [PushBase EXCEPT !.pushOk = FALSE]}

\* the situations the push entry of the menu runs in: the rows picked, the
\* state of the working tree, the answer to "split first?", the results of
\* git
MenuPushInputs ==
    {[PushBase EXCEPT !.name = NONE, !.sel = k, !.gate = g, !.askSplit = a] :
        k \in {"none", "first", "all"}, g \in {"ok", "dirty"}, a \in BOOLEAN}
    \cup {[PushBase EXCEPT !.name = NONE, !.fails = {n}] : n \in Names}

\* the situations pull runs in: the name given, the state of the working
\* tree and the answer to "go on?", the results of git
PullInputs ==
    {[PushBase EXCEPT !.name = n, !.gate = g, !.goOn = a] :
        n \in Names \cup {NONE}, g \in {"ok", "norepo", "dirty", "unknown"},
        a \in BOOLEAN}
    \cup {[PushBase EXCEPT !.name = NONE, !.fails = {n}] : n \in Names}
    \cup {[PushBase EXCEPT !.yes = FALSE, !.confirm = c] : c \in BOOLEAN}

\* the situations split runs in: the name given, whether the command is
\* run or copied to the clipboard, the time of day, the results of git
SplitInputs ==
    {[PushBase EXCEPT !.name = n, !.copy = k, !.clock = c] :
        n \in Names \cup {NONE}, c \in Clocks,
        k \in {"no", "copied", "copy_failed_go", "copy_failed_stop",
               "nolib_cancel", "nolib_go", "nolib_stop"}}
    \cup {[PushBase EXCEPT !.gate = g] : g \in {"norepo", "dirty", "unknown"}}
    \cup {[PushBase EXCEPT !.name = NONE, !.fails = {n}] : n \in Names}
    \cup {[PushBase EXCEPT !.yes = FALSE, !.confirm = FALSE],
          [PushBase EXCEPT !.yes = FALSE],
          [PushBase EXCEPT !.branchFound = TRUE],
          [PushBase EXCEPT !.splitOk = FALSE]}

\* the process starts with the registry file not yet there
InitOps ==
    /\ variant = "multi"
    /\ file = Absent
    /\ perm = "rw"
    /\ prev = Absent
    /\ last = MkLast("init", NONE, NoEntry, "ok", <<>>)
    /\ cmds = <<>>
    /\ rmtree = {}
    /\ inp = NoInput
    /\ run = IdleRun
    /\ inv = NoInvocations

\* prefixes as a registry written by hand or by an earlier version holds them
StoredPrefixes ==
    {<<>>, <<".">>, <<".", Sep>>, <<Sep>>, <<Sep, Sep>>, <<"src", Sep, "..">>,
     <<"src", Sep, "lib">>, <<"src", Sep, "lib", Sep>>, <<Sep, "p", Sep, "w1">>}

StoredEntry(n, r, b, pfx, sb) == MkEntry(n, r, pfx, b, sb, Isoformat(Clock1))

\* a workspace w1 that holds the given records and is the current one
OneWorkspace(repos) ==
    DumpConfig(MkConfig(<<MkWs("w1", "/p/w1", TRUE, repos)>>, "w1"))

\* the registry holds one or two records with prefixes of any form
InitRemove ==
    /\ variant = "multi"
    /\ \E p1 \in StoredPrefixes, p2 \in StoredPrefixes, two \in BOOLEAN :
        /\ two => p1 # p2
        /\ ~two => p2 = <<>>
        /\ file = OneWorkspace(
              <<StoredEntry("lib", "https://h/x.git", "main", p1, NONE)>> \o
              (IF two THEN <<StoredEntry("app", "https://h/y.git", "dev", p2, NONE)>>
               ELSE <<>>))
    /\ perm = "rw"
    /\ prev = Absent
    /\ last = MkLast("init", NONE, NoEntry, "ok", <<>>)
    /\ cmds = <<>>
    /\ rmtree = {}
    /\ inp = NoInput
    /\ run = IdleRun
    /\ inv = NoInvocations

\* split_branch values a record can hold: none, a name of the user's own, a
\* name of the derived form
StoredSplitBranches(n) == {NONE, n \o "-split", n \o "#ST240101"}

\* the registry holds one or two records, with or without a split_branch
InitPush ==
    /\ variant = "multi"
    /\ \E s1 \in StoredSplitBranches("lib"), s2 \in StoredSplitBranches("app"),
          two \in BOOLEAN, b \in {NONE, "main"} :
        /\ ~two => s2 = NONE
        /\ file = OneWorkspace(
              <<StoredEntry("lib", "https://h/x.git", b, <<"src", Sep, "lib">>, s1)>> \o
              (IF two THEN <<StoredEntry("app", "https://h/y.git", "dev",
                                         <<"src", Sep, "app">>, s2)>>
               ELSE <<>>))
    /\ perm = "rw"
    /\ prev = Absent
    /\ last = MkLast("init", NONE, NoEntry, "ok", <<>>)
    /\ cmds = <<>>
    /\ rmtree = {}
    /\ inp = NoInput
    /\ run = IdleRun
    /\ inv = NoInvocations

\* an operation ends: the file, the commands and the removed directories
\* are what it left
Ended(r, op, name, entry) ==
    /\ file' = r.file
    /\ prev' = file
    /\ last' = MkLast(op, name, entry, r.ret, r.rows)
    /\ cmds' = r.cmds
    /\ rmtree' = r.rmtree
    /\ UNCHANGED <<variant, perm, run, inv>>

Done(r, op, name, entry) == Ended(r, op, name, entry) /\ UNCHANGED inp

\* a pull, push or split ends: the situation i it ran in is kept as well
DoneIn(r, op, i) == Ended(r, op, i.name, NoEntry) /\ inp' = i

Add ==
    \E i \in AddInputs :
        Done(add_subtree(variant, file, perm, i), "add", i.args.name,
             AddRecord(i.args, i.clock))

List == Done(list_subtrees(file, perm), "list", NONE, NoEntry)

Remove ==
    \E i \in RemoveInputs :
        /\ i.pick <= Len(StoredRepos(variant, file))
        /\ Ended(remove_subtree(variant, file, perm, i), "remove", i.name, NoEntry)
        /\ inp' = i

RemoveAll ==
    \E i \in RemoveAllInputs :
        /\ Ended(remove_all_subtrees(variant, file, perm, i), "remove_all", NONE,
                 NoEntry)
        /\ inp' = i

\* split_subtree called for one record, as the interactive menu does
Split ==
    \E i \in SplitInputs :
        /\ i.name # NONE
        /\ DoneIn(split_subtree(variant, file, perm, i, NoEntry), "split", i)

SplitAll ==
    \E i \in SplitInputs :
        DoneIn(split_all_subtrees(variant, file, perm, i), "split_all", i)

\* push_subtree called for one record, as the interactive menu does
Push ==
    \E i \in PushInputs :
        /\ i.name # NONE
        /\ DoneIn(push_subtree(variant, file, perm, i, NoEntry), "push", i)

PushAll ==
    \E i \in PushInputs :
        DoneIn(push_all_subtrees(variant, file, perm, i), "push_all", i)

\* the push entry of the interactive menu
MenuPush ==
    \E i \in MenuPushInputs :
        DoneIn(menu_push(variant, file, perm, i), "menu_push", i)

PullAll ==
    \E i \in PullInputs :
        DoneIn(pull_all_subtrees(variant, file, perm, i), "pull_all", i)

\* the user registers the working directory as a workspace
\* (interactive.add_repository)
AddWorkspace ==
    \E setCur \in BOOLEAN, path \in {"/p/w1", "/q/w1"} :
        LET r == interactive_add_repository(file, perm, path, TRUE, setCur) IN
        Done(MkOp(r.file, r.ret, <<>>, <<>>, {}), "add_workspace", NONE, NoEntry)

NextOps == Add \/ List \/ Remove \/ RemoveAll \/ AddWorkspace

SpecOps == InitOps /\ [][NextOps]_vars

NextRemove == Remove \/ RemoveAll

SpecRemove == InitRemove /\ [][NextRemove]_vars

NextPush == Split \/ SplitAll \/ Push \/ PushAll \/ MenuPush \/ PullAll

SpecPush == InitPush /\ [][NextPush]_vars

----------------------------------------------------------------------------
(* Saving into a file that holds records and may not be readable *)

\* the file holds records, in the flat form or in two workspaces of which
\* the first is current; it can be read and written, only read, or only
\* written
InitSave ==
    /\ variant \in {"flat", "multi"}
    /\ \E l \in LegacyLists :
        \/ file = DumpFlat(l)
        \/ /\ variant = "multi"
           /\ file = DumpConfig(MkConfig(
                  <<MkWs("w1", "/p/w1", TRUE, l),
                    MkWs("w2", "/p/w2", FALSE, <<CHOOSE e \in SaveEntries :
                                                    e.name = "app">>)>>, "w1"))
    /\ perm \in {"rw", "ro", "wo"}
    /\ prev = Absent
    /\ last = MkLast("init", NONE, NoEntry, "ok", <<>>)
    /\ cmds = <<>>
    /\ rmtree = {}
    /\ inp = NoInput
    /\ run = IdleRun
    /\ inv = NoInvocations

NextSave == Load \/ Find \/ Save \/ Delete

SpecSave == InitSave /\ [][NextSave]_vars

----------------------------------------------------------------------------
(* Two invocations that save or delete at the same time *)

\* what an invocation is asked to do: save a record, or delete the record
\* of a name (kept in entry.name)
WriterOps ==
    {[op |-> "save", entry |-> e] : e \in SaveEntries}
    \cup {[op |-> "delete", entry |-> [NoEntry EXCEPT !.name = n]] : n \in Names}

\* the collections the file holds when the invocations start
WriterLists ==
    {<<>>,
     <<StoredEntry("lib", "https://h/x.git", "main", <<"src", Sep, "lib">>, NONE)>>,
     <<StoredEntry("lib", "https://h/x.git", "main", <<"src", Sep, "lib">>, NONE),
       StoredEntry("app", "https://h/y.git", "dev", <<"src", Sep, "app">>, NONE)>>}

\* the file is not there yet, or holds a collection in the flat form, or
\* (multi-workspace store) one workspace, or two of which the first is
\* current
InitWriters ==
    /\ variant \in {"flat", "multi"}
    /\ \E l \in WriterLists :
        \/ file = Absent
        \/ file = DumpFlat(l)
        \/ variant = "multi" /\ file = OneWorkspace(l)
        \/ /\ variant = "multi"
           /\ file = DumpConfig(MkConfig(
                  <<MkWs("w1", "/p/w1", TRUE, l),
                    MkWs("w2", "/p/w2", FALSE,
                         <<StoredEntry("app", "https://h/y.git", "dev",
                                       <<"src", Sep, "app">>, NONE)>>)>>, "w1"))
    /\ perm = "rw"
    /\ prev = Absent
    /\ last = MkLast("init", NONE, NoEntry, "ok", <<>>)
    /\ cmds = <<>>
    /\ rmtree = {}
    /\ inp = NoInput
    /\ run = IdleRun
    /\ inv = NoInvocations

\* a writer that writes its collection back without its own change
Changed_Nothing(r, repos) == repos

\* the change of save_subtree_repo (for/else) or of delete_subtree_repo
\* (the filter) on the collection the invocation holds
Changed(r, repos) ==
    IF r.op = "save" THEN Upsert(repos, r.entry) ELSE Without(repos, r.entry.name)

\* the invocation p goes from its record me to the record r, the file
\* being f afterwards
WriterStep(p, r, f) ==
    /\ inv' = [inv EXCEPT !.proc[p] = r]
    /\ file' = f
    /\ UNCHANGED <<variant, perm, prev, last, opVars, run>>

\* save_subtree_repo(repo_info) or delete_subtree_repo(name) is called
Invoke(p) ==
    /\ inv.proc[p].pc = "idle"
    /\ \E o \in WriterOps :
        WriterStep(p, [inv.proc[p] EXCEPT !.pc = IF variant = "flat" THEN "list"
                                                 ELSE "name",
                                          !.op = o.op, !.entry = o.entry], file)

\* get_current_repository_name(): the first load_config() of
\* get_current_repository()
ReadName(p) ==
    LET me == inv.proc[p]
        c == LoadConfig(file, perm)
    IN
    /\ me.pc = "name"
    /\ WriterStep(p, IF c.raised THEN [me EXCEPT !.pc = "done"]
                     ELSE [me EXCEPT !.pc = "list",
                                     !.cur = c.val.current_repository], c.file)

\* the collection is read: load_subtree_repos() of the flat store;
\* load_all_repositories() and the search for the workspace of the pointer
\* read before in the multi-workspace store (the default workspace is
\* taken from the same list).  A delete that finds nothing to remove
\* returns here, as does a save or delete without a workspace.
ReadList(p) ==
    LET me == inv.proc[p]
        l == FlatLoad(file, perm)
        c == LoadConfig(file, perm)
        ws == GetCurrentRepository([c.val EXCEPT !.current_repository = me.cur])
        snap == IF variant = "flat" THEN l.val ELSE ws.repos
        held == [me EXCEPT !.snap = snap, !.ws = IF variant = "flat" THEN NoWs ELSE ws,
                           !.readAt = inv.writes,
                           !.out = DumpFlat(Changed(me, snap))]
        nothing == me.op = "delete" /\ Len(Changed(me, snap)) = Len(snap)
    IN
    /\ me.pc = "list"
    /\ IF variant = "flat"
       THEN WriterStep(p, IF l.raised THEN [me EXCEPT !.pc = "done"]
                          ELSE IF nothing THEN [held EXCEPT !.pc = "done"]
                          ELSE [held EXCEPT !.pc = "write"], l.file)
       ELSE WriterStep(p, IF c.raised \/ ws = NoWs THEN [me EXCEPT !.pc = "done"]
                          ELSE IF nothing THEN [held EXCEPT !.pc = "done"]
                          ELSE [held EXCEPT !.pc = "config"], c.file)

\* config = load_config() and the loop that puts current_repo, with the
\* change made, into it
ReadConfig(p) ==
    LET me == inv.proc[p]
        c == LoadConfig(file, perm)
        upd == [me.ws EXCEPT !.repos = Changed(me, me.snap)]
    IN
    /\ me.pc = "config"
    /\ WriterStep(p, IF c.raised THEN [me EXCEPT !.pc = "done"]
                     ELSE [me EXCEPT !.pc = "write",
                                     !.out = DumpConfig(PutWorkspace(c.val, upd))],
                  c.file)

\* open(path, 'w') ; json.dump(...)
WriteBack(p) ==
    LET me == inv.proc[p]
        w == WriteFile(file, perm, me.out)
    IN
    /\ me.pc = "write"
    /\ inv' = [inv EXCEPT !.proc[p] = [me EXCEPT !.pc = "done",
                                                 !.wroteAt = inv.writes + 1],
                          !.writes = @ + 1]
    /\ file' = w.file
    /\ UNCHANGED <<variant, perm, prev, last, opVars, run>>

NextWriters ==
    \E p \in Writers :
        Invoke(p) \/ ReadName(p) \/ ReadList(p) \/ ReadConfig(p) \/ WriteBack(p)

SpecWriters == InitWriters /\ [][NextWriters]_vars

----------------------------------------------------------------------------
(* The runner as a state machine *)

InitRunner ==
    /\ variant = "multi"
    /\ file = Absent
    /\ perm = "rw"
    /\ prev = Absent
    /\ last = MkLast("init", NONE, NoEntry, "ok", <<>>)
    /\ cmds = <<>>
    /\ rmtree = {}
    /\ inp = NoInput
    /\ run = IdleRun
    /\ inv = NoInvocations

regVars == <<variant, file, perm, prev, last, cmds, rmtree, inp, inv>>

\* the runner is called: the program starts, or cannot be started
RunStart ==
    /\ run.pc = "idle"
    /\ \E k \in RunnerKinds, la \in {"ok", "missing", "denied"} :
        IF la = "ok"
        THEN \E o \in 0..MaxChunks, e \in 0..MaxChunks, ig \in BOOLEAN :
                run' = [IdleRun EXCEPT !.kind = k, !.launch = la, !.pc = FirstPc(k),
                                       !.child = "running", !.outLeft = o,
                                       !.errLeft = e, !.ignoresTerm = ig]
        ELSE LET r == OnLaunchError(k, la) IN
             run' = [IdleRun EXCEPT !.kind = k, !.launch = la, !.pc = "done",
                                    !.result = r.result, !.success = r.success,
                                    !.msg = r.msg]
    /\ UNCHANGED regVars

\* the child writes a chunk to stdout; it blocks while the pipe is full
ChildWritesOut ==
    /\ run.child = "running" /\ run.outLeft > 0
    /\ Piped(run.kind) => run.outq < PipeCap
    /\ run' = [run EXCEPT !.outLeft = @ - 1, !.wroteOut = TRUE, !.sentOut = @ + 1,
                          !.outq = IF Piped(run.kind) THEN @ + 1 ELSE @]
    /\ UNCHANGED regVars

\* the child writes a chunk to stderr; it blocks while the pipe is full
ChildWritesErr ==
    /\ run.child = "running" /\ run.errLeft > 0
    /\ Piped(run.kind) => run.errq < PipeCap
    /\ run' = [run EXCEPT !.errLeft = @ - 1, !.wroteErr = TRUE, !.sentErr = @ + 1,
                          !.errq = IF Piped(run.kind) THEN @ + 1 ELSE @]
    /\ UNCHANGED regVars

\* the child has written what it had to and exits
ChildExits ==
    /\ run.child = "running" /\ run.outLeft = 0 /\ run.errLeft = 0
    /\ \E c \in {0, 1} : run' = [run EXCEPT !.child = "exited", !.code = c]
    /\ UNCHANGED regVars

\* SIGKILL ends the child, SIGTERM ends it unless it ignores the signal
ChildDiesOfSignal ==
    /\ run.child = "running"
    /\ run.killSent \/ (run.termSent /\ ~run.ignoresTerm)
    /\ run' = [run EXCEPT !.child = "exited",
                          !.code = IF run.killSent THEN -9 ELSE -15]
    /\ UNCHANGED regVars

\* streaming: stdout_reader.readline() until end of file; a line is echoed
\* to sys.stdout and then added to full_stdout, and a line whose echo fails
\* is reported on stderr and not added
ReadStdout ==
    /\ run.pc = "read_stdout"
    /\ \/ /\ run.outq > 0
          /\ \E echoed \in BOOLEAN :
                run' = [run EXCEPT !.outq = @ - 1,
                                   !.gotOut = IF echoed THEN @ + 1 ELSE @]
       \/ /\ run.outq = 0 /\ run.child = "exited"
          /\ run' = [run EXCEPT !.pc = "read_stderr"]
    /\ UNCHANGED regVars

\* streaming: process.stderr.read() until end of file; what was read is
\* echoed to sys.stderr and then added to full_stderr, or not added when the
\* echo fails
ReadStderr ==
    /\ run.pc = "read_stderr"
    /\ \/ /\ run.errq > 0
          /\ run' = [run EXCEPT !.errq = @ - 1, !.gotErr = @ + 1]
       \/ /\ run.errq = 0 /\ run.child = "exited"
          /\ \E echoed \in BOOLEAN :
                run' = [run EXCEPT !.pc = "wait",
                                   !.gotErr = IF echoed THEN @ ELSE 0]
    /\ UNCHANGED regVars

\* buffered: subprocess.run with both pipes reads them side by side
Communicate ==
    /\ run.pc = "communicate"
    /\ \/ /\ run.outq > 0
          /\ run' = [run EXCEPT !.outq = @ - 1, !.gotOut = @ + 1]
       \/ /\ run.errq > 0
          /\ run' = [run EXCEPT !.errq = @ - 1, !.gotErr = @ + 1]
       \/ /\ run.outq = 0 /\ run.errq = 0 /\ run.child = "exited"
          /\ run' = [run EXCEPT !.pc = "done", !.result = "returned",
                                !.success = Success(run.code, run.wroteErr),
                                !.msg = "output"]
    /\ UNCHANGED regVars

\* streaming and direct: process.wait(), then return returncode == 0; the
\* finally clause finds the child gone
WaitReturn ==
    /\ run.pc = "wait" /\ run.child = "exited"
    /\ run' = [run EXCEPT !.pc = "done", !.result = "returned",
                          !.success = Success(run.code, run.wroteErr),
                          !.msg = IF run.kind = "direct" THEN "" ELSE "output"]
    /\ UNCHANGED regVars

\* Ctrl-C while the runner waits for the child: KeyboardInterrupt is no
\* Exception, so the streaming runner goes to its finally clause with the
\* interrupt pending; subprocess.run kills the child and re-raises
KeyboardInterrupt ==
    /\ run.pc \in {"read_stdout", "read_stderr", "wait", "communicate"}
    /\ run' = IF run.kind = "streaming"
              THEN [run EXCEPT !.pc = "finally", !.result = "raised"]
              ELSE [run EXCEPT !.pc = "done", !.result = "raised",
                               !.killSent = (run.child = "running")]
    /\ UNCHANGED regVars

\* finally: if process and process.poll() is None: process.terminate()
CleanupPoll ==
    /\ run.pc = "finally"
    /\ run' = IF run.child = "running"
              THEN [run EXCEPT !.pc = "fin_wait", !.termSent = TRUE]
              ELSE [run EXCEPT !.pc = "done"]
    /\ UNCHANGED regVars

\* finally: process.wait(timeout=0.5); on TimeoutExpired process.kill()
CleanupWait ==
    /\ run.pc = "fin_wait"
    /\ run' = IF run.child = "running"
              THEN [run EXCEPT !.pc = "done", !.killSent = TRUE]
              ELSE [run EXCEPT !.pc = "done"]
    /\ UNCHANGED regVars

\* Ctrl-C again while the finally clause runs: the interrupt leaves the
\* clause at once
InterruptCleanup ==
    /\ run.pc \in {"finally", "fin_wait"}
    /\ run' = [run EXCEPT !.pc = "done"]
    /\ UNCHANGED regVars

NextRunner ==
    \/ RunStart \/ ChildWritesOut \/ ChildWritesErr \/ ChildExits
    \/ ChildDiesOfSignal \/ ReadStdout \/ ReadStderr \/ Communicate
    \/ WaitReturn \/ KeyboardInterrupt \/ CleanupPoll \/ CleanupWait
    \/ InterruptCleanup

\* the runner's own steps are taken when they can be, and a signal that ends
\* the child does end it; a child left alone may run for ever
SpecRunner ==
    /\ InitRunner /\ [][NextRunner]_vars
    /\ WF_vars(ReadStdout) /\ WF_vars(ReadStderr) /\ WF_vars(Communicate)
    /\ WF_vars(WaitReturn) /\ WF_vars(CleanupPoll) /\ WF_vars(CleanupWait)
    /\ WF_vars(ChildDiesOfSignal)

----------------------------------------------------------------------------
(* Properties of the registry *)

C2_UniqueUpsert ==
    /\ \A c \in AllCollections(file) : UniqueNames(c)
    /\ (last.op = "save" /\ last.ret = "True") =>
        LET old == StoredRepos(variant, prev)
            new == StoredRepos(variant, file)
            i == FirstIndex(old, last.name, 1)
        IN
        IF i > 0
        THEN /\ Len(new) = Len(old)
             /\ new[i] = last.entry
             /\ \A j \in 1..Len(old) : j # i => new[j] = old[j]
        ELSE new = Append(old, last.entry)

\* a successful save replaced the first of two records
C2_Witness ==
    /\ last.op = "save" /\ last.ret = "True"
    /\ Len(StoredRepos(variant, prev)) = 2
    /\ StoredRepos(variant, prev)[1].name = last.name
    /\ StoredRepos(variant, prev)[1] # last.entry
    /\ variant = "multi"

\* C3 as stated: delete of a name that is not stored returns false and
\* changes nothing; delete of a stored name returns true and removes exactly
\* that record.
C3_DeleteAsStated ==
    last.op = "delete" =>
        LET old == StoredRepos(variant, prev)
            new == StoredRepos(variant, file)
        IN
        IF FirstIndex(old, last.name, 1) = 0
        THEN last.ret = "False" /\ new = old
        ELSE /\ last.ret = "True"
             /\ Len(new) = Len(old) - 1
             /\ new = SelectSeq(old, LAMBDA e : e.name # last.name)

\* C3 amended: delete of a name that is not stored does not return true and
\* leaves the stored collection unchanged; delete returns true only for a
\* stored name, and then the stored collection is the previous one minus
\* exactly that record; for a stored name it returns true unless the file
\* could not be read or rewritten.
C3_DeleteAmended ==
    last.op = "delete" =>
        LET old == StoredRepos(variant, prev)
            new == StoredRepos(variant, file)
            present == FirstIndex(old, last.name, 1) > 0
        IN
        /\ ~present => (last.ret # "True" /\ new = old)
        /\ last.ret = "True" =>
            /\ present
            /\ Len(new) = Len(old) - 1
            /\ new = SelectSeq(old, LAMBDA e : e.name # last.name)
        /\ (present /\ last.ret # "True") => perm # "rw"

\* a delete removed the first of two stored records
C3_Witness ==
    /\ last.op = "delete" /\ last.ret = "True"
    /\ Len(StoredRepos(variant, prev)) = 2
    /\ StoredRepos(variant, prev)[1].name = last.name
    /\ Len(StoredRepos(variant, file)) = 1

\* C7: load() never raises; an absent file is created with the empty
\* structure and load returns the empty collection; a file that cannot be
\* read or parsed gives the empty collection.
C7_LoadNeverRaises ==
    last.op = "load" =>
        /\ last.ret # "raise"
        /\ prev = Absent =>
            /\ file \in {DumpFlat(<<>>), DumpConfig(EmptyConfig)}
            /\ last.out = <<>>
        /\ (prev # Absent /\ ReadRaises(prev, perm)) => last.out = <<>>

----------------------------------------------------------------------------
(* Properties of the operations *)

\* the commands of the last operation that name the staging branch
StagingCmds == {c \in Range(cmds) : c.verb \in {"subtree split", "push"}}

\* the stored record a split or push command was built from: the one with
\* the command's prefix (split) or the command's remote (push)
BuiltFrom(c, e) ==
    IF c.verb = "subtree split" THEN e.prefix = c.prefix ELSE e.remote = c.remote

\* C4: for every entry that stores a split_branch, every command that names
\* the staging branch (the split command of split, the split command run
\* inside push, the push command) names the stored split_branch and not the
\* derived <name>#ST<date>.
C4_StoredSplitBranchUsed ==
    \A c \in StagingCmds :
        \A e \in Range(StoredRepos(variant, file)) :
            (BuiltFrom(c, e) /\ e.split_branch # NONE) => c.src = e.split_branch

\* C5: remove, single or batch, never hands shutil.rmtree a prefix that
\* normalizes or resolves to the empty path, "." or "/": neither the working
\* directory nor the file system root is ever deleted.
C5_ProtectedNeverDeleted ==
    \A d \in rmtree : d # <<>> /\ d # Cwd

\* C6: from an empty registry, after an add that returned success list
\* shows exactly one row with the name, remote, prefix and branch added and
\* a non-empty added_time; after a successful remove of the only entry list
\* shows no row.
C6_AddListRemove ==
    /\ (last.op = "add" /\ last.ret = "True" /\ StoredRepos(variant, prev) = <<>>) =>
        LET r == list_subtrees(file, perm) IN
        /\ r.ret = "True"
        /\ Len(r.rows) = 1
        /\ r.rows[1].name = last.entry.name
        /\ r.rows[1].remote = last.entry.remote
        /\ r.rows[1].prefix = last.entry.prefix
        /\ r.rows[1].branch = last.entry.branch
        /\ r.rows[1].added_time # <<>>
    /\ (/\ last.op = "remove" /\ last.ret = "True"
        /\ Len(StoredRepos(variant, prev)) = 1
        /\ StoredRepos(variant, prev)[1].name = last.name) =>
        LET r == list_subtrees(file, perm) IN
        r.ret = "True" /\ r.rows = <<>>

\* the stored records the last operation was about: the one named, or all
TargetEntries ==
    Selected(StoredRepos(variant, file), last.name)

\* C17: push refuses to proceed on a dirty working tree: through the batch
\* entry point and through the push entry of the interactive menu alike, when
\* the parent repository has uncommitted changes neither a split nor a push
\* command is run and the operation reports failure.
C17_PushRefusesDirtyTree ==
    (last.op \in {"push_all", "menu_push"} /\ inp.gate = "dirty") =>
        /\ StagingCmds = {}
        /\ last.ret = "False"

\* does push have to split first: no prior split is detected for the
\* entry, or --force-split is given, or the user confirms when asked
SplitWanted(i) ==
    ~i.branchFound \/ i.forceSplit \/ (~i.yes /\ i.askSplit)

\* the positions in the commands of the last operation that hold verb
Positions(verb) == {k \in 1..Len(cmds) : cmds[k].verb = verb}

\* C18: when push_subtree goes on to push an entry, the split command is
\* run before the push command whenever no prior split is detected, or
\* --force-split is given, or the user confirms; it is skipped only when
\* none of the three holds.
C18_SplitBeforePush ==
    (last.op = "push" /\ Positions("push") # {}) =>
        IF SplitWanted(inp)
        THEN \E k \in Positions("subtree split") :
                \A j \in Positions("push") : k < j
        ELSE Positions("subtree split") = {}

\* C19: push_subtree on an entry with no split_branch returns failure and
\* runs no command at all, and no split or push command of any push is
\* built from an entry without a split_branch.
C19_MissingSplitBranch ==
    /\ (/\ last.op = "push"
        /\ \E e \in Range(TargetEntries) : e.split_branch = NONE) =>
            (last.ret = "False" /\ cmds = <<>>)
    /\ last.op \in {"push", "push_all", "menu_push"} =>
            \A c \in StagingCmds : \A e \in Range(StoredRepos(variant, file)) :
                BuiltFrom(c, e) => e.split_branch # NONE

\* push_subtree was called for a stored entry without a split_branch
C19_Witness ==
    /\ last.op = "push" /\ last.ret = "False"
    /\ \E e \in Range(TargetEntries) : e.split_branch = NONE
    /\ inp.forceSplit

\* C21: the push command built for an entry is exactly git push
\* <remote-name> <split_branch>:<branch>, <remote-name> being the entry's
\* name (the remote that add registers and that add and pull name) and
\* <branch> being main when the entry has none.
C21_PushCommandForm ==
    last.op \in {"push", "push_all", "menu_push"} =>
        \A k \in Positions("push") :
            \E e \in Range(TargetEntries) :
                cmds[k] = GitCmd("push", <<>>, e.name, e.split_branch,
                                 IF e.branch = NONE THEN "main" ELSE e.branch)

\* C22: in push_subtree a split step that runs and fails ends the push:
\* no push command follows and the result is failure; a push command is
\* run only after a split that succeeded or was skipped, and the result is
\* then the result of the push command.
C22_FailedSplitAbortsPush ==
    last.op = "push" =>
        LET splitFailed == ~inp.splitOk \/ inp.name \in inp.fails
            pushFailed == ~inp.pushOk \/ inp.name \in inp.fails
        IN
        /\ (Positions("subtree split") # {} /\ splitFailed) =>
                (Positions("push") = {} /\ last.ret = "False")
        /\ Positions("push") # {} =>
                /\ Cardinality(Positions("push")) = 1
                /\ \A k \in Positions("subtree split") :
                        \A j \in Positions("push") : k < j
                /\ (last.ret = "True") <=> ~pushFailed

\* push_subtree ran its split step, the split failed and the push ended
\* there
C22_Witness ==
    /\ last.op = "push" /\ last.ret = "False"
    /\ Positions("subtree split") # {} /\ Positions("push") = {}
    /\ ~inp.splitOk

\* C23: add_subtree writes the new entry only after the subtree-add
\* command has succeeded (at once or on the one retry); when it returns
\* failure or is cancelled the registry is unchanged, and whenever it
\* returns success the registry holds the new entry.
C23_AddSavesOnSuccess ==
    last.op = "add" =>
        /\ file # prev =>
                /\ Positions("subtree add") # {}
                /\ cmds[Len(cmds)].verb = "subtree add"
        /\ last.ret = "False" => file = prev
        /\ last.ret = "True" =>
                \E k \in 1..Len(StoredRepos(variant, file)) :
                    StoredRepos(variant, file)[k] = last.entry

\* C25: remove_all_subtrees deletes no registry entry and no local file
\* unless --batch is set, the confirmation is answered yes and the text
\* typed is exactly 'DELETE ALL SUBTREES'; remove_subtree changes neither
\* the registry nor the files when the final confirmation is declined.
C25_NothingWithoutConfirmation ==
    /\ (last.op = "remove_all" /\ ~(inp.batch /\ inp.confirm /\ inp.verify)) =>
            /\ StoredRepos(variant, file) = StoredRepos(variant, prev)
            /\ rmtree = {}
            /\ last.ret = "False"
    /\ (last.op = "remove" /\ ~inp.confirm) =>
            /\ StoredRepos(variant, file) = StoredRepos(variant, prev)
            /\ rmtree = {}
            /\ last.ret = "False"

\* a batch removal with --batch and the confirmation given stopped at the
\* text typed, the registry holding entries
C25_Witness ==
    /\ last.op = "remove_all"
    /\ inp.batch /\ inp.confirm /\ ~inp.verify /\ inp.deleteFiles
    /\ StoredRepos(variant, file) # <<>>
    /\ file = prev

\* C26: the option --no-files of remove is honoured: a remove invoked with
\* --no-files deletes no local directory on any path, whatever is answered
\* to the prompts.
C26_NoFilesHonoured ==
    (last.op \in {"remove", "remove_all"} /\ inp.noFiles) => rmtree = {}

\* C27: remove_subtree deletes the registry entry before it attempts the
\* deletion of the local files and never restores it: when the deletion of
\* the files is then refused by the safety check or fails, remove_subtree
\* returns failure, the entry is gone from the registry and the files are
\* still there.
C27_EntryGoneBeforeFiles ==
    LET before == StoredRepos(variant, prev)
        k == IF inp.name # NONE THEN FirstIndex(before, inp.name, 1) ELSE inp.pick
        pp == Path(before[k].prefix)
        refused == ~SafeToDelete(pp)
    IN
    (/\ last.op = "remove"
     /\ inp.inRepo /\ (~inp.dirty \/ inp.goOn) /\ inp.confirm
     /\ ~inp.configOnly /\ inp.deleteFiles /\ ~inp.deleteTaskfile
     /\ k \in 1..Len(before)
     /\ Exists(pp, inp.there)
     /\ (refused \/ inp.rmFails)) =>
        /\ last.ret = "False"
        /\ FirstIndex(StoredRepos(variant, file), before[k].name, 1) = 0
        /\ refused => rmtree = {}

\* the safety check refused the directory of an entry that remove_subtree
\* had already taken out of the registry
C27_Witness ==
    /\ last.op = "remove" /\ last.ret = "False"
    /\ inp.confirm /\ inp.deleteFiles /\ ~inp.configOnly /\ ~inp.rmFails
    /\ inp.name # NONE
    /\ FirstIndex(StoredRepos(variant, prev), inp.name, 1) > 0
    /\ FirstIndex(StoredRepos(variant, file), inp.name, 1) = 0
    /\ rmtree = {}

\* C28: every entry that add saves can be pushed afterwards: the saved
\* record carries the split_branch that push requires, so a push of the
\* entry add has just saved never ends in the "missing split_branch" error
\* (failure without any command).
C28_AddedEntryCanBePushed ==
    (/\ last.op = "add" /\ last.ret = "True"
     /\ last.entry \in Range(StoredRepos(variant, file))) =>
        /\ last.entry.split_branch # NONE
        /\ \A i \in PushInputs :
                i.name = last.name =>
                    push_subtree(variant, file, perm, i, NoEntry).cmds # <<>>

\* C29: adding a workspace never loses data of the workspaces already
\* registered: after add_workspace every workspace registered before is
\* still there with its path and its collection of entries unchanged, also
\* when the new path is a different one that yields a name in use.
C29_AddWorkspaceKeepsData ==
    last.op = "add_workspace" =>
        LET before == UpgradeConfig(prev).repositories
            after == UpgradeConfig(file).repositories
        IN
        \A k \in 1..Len(before) :
            \E j \in 1..Len(after) :
                /\ after[j].name = before[k].name
                /\ after[j].path = before[k].path
                /\ after[j].repos = before[k].repos

\* a batch went through its loop and printed its summary
BatchDone ==
    last.op \in {"pull_all", "push_all", "split_all"} /\ last.out # <<>>

\* the names of the selected entries, in registry order
SelectedNames ==
    [k \in 1..Len(TargetEntries) |-> TargetEntries[k].name]

\* the summary of a batch that handled the entries named in names
TalliesWith(names) ==
    /\ last.out[1].handled = names
    /\ last.out[1].success_count + last.out[1].fail_count = Len(names)
    /\ (last.ret = "True") <=> (last.out[1].fail_count = 0)

CopyModeSplit == last.op = "split_all" /\ CopyOnly(inp.copy)

----------------------------------------------------------------------------
(* Properties of two invocations at the same time *)

\* C24: registry writes are last-writer-wins: when two invocations
\* interleave their load-modify-write, the file after both have finished
\* is exactly what the later writer wrote, its own loaded collection with
\* its own change applied; a change the other invocation wrote between
\* that load and that write is absent from the file.
C24_LastWriterWins ==
    \A p \in Writers, q \in Writers :
        LET a == inv.proc[p]
            b == inv.proc[q]
            stored == StoredRepos(variant, file)
        IN
        (/\ p # q /\ a.pc = "done" /\ b.pc = "done"
         /\ b.wroteAt > 0 /\ b.wroteAt > a.wroteAt) =>
            /\ file = b.out
            /\ stored = IF b.op = "save" THEN Upsert(b.snap, b.entry)
                        ELSE Without(b.snap, b.entry.name)
            /\ (a.wroteAt > b.readAt /\ a.op = "save") =>
                    \A k \in 1..Len(stored) :
                        stored[k] = a.entry =>
                            (b.entry = a.entry \/ a.entry \in Range(b.snap))
            /\ (a.wroteAt > b.readAt /\ a.op = "delete") =>
                    \A e \in Range(b.snap) :
                        (e.name = a.entry.name /\ b.entry.name # e.name) =>
                            e \in Range(stored)

\* an update is lost: A saved a record after B had read the collection, B
\* wrote last, and the record A saved is not in the file
C24_Witness ==
    LET a == inv.proc["A"]
        b == inv.proc["B"]
    IN
    /\ a.pc = "done" /\ b.pc = "done"
    /\ a.op = "save" /\ a.wroteAt = 1 /\ b.wroteAt = 2 /\ b.readAt = 0
    /\ a.entry \notin Range(StoredRepos(variant, file))
    /\ b.entry.name # a.entry.name

----------------------------------------------------------------------------
(* Properties of the workspaces *)

\* the configuration the file holds, a legacy file read as load_config
\* reads it
StoredConfig(f) == UpgradeConfig(f)

Defaults(config) ==
    {i \in 1..Len(config.repositories) : config.repositories[i].is_default}

WorkspaceNames(config) ==
    {config.repositories[i].name : i \in 1..Len(config.repositories)}

C15_FirstWorkspacePromoted ==
    (last.op = "add_workspace" /\ last.ret = "True") =>
        LET old == StoredConfig(prev)
            new == StoredConfig(file)
        IN
        /\ old.repositories = <<>> =>
              /\ Len(new.repositories) = 1
              /\ new.repositories[1].name = last.name
              /\ new.repositories[1].is_default
              /\ new.current_repository = last.name
        /\ (old.repositories # <<>> /\ last.name \notin WorkspaceNames(old)) =>
              /\ new.current_repository = old.current_repository
              /\ Len(new.repositories) = Len(old.repositories) + 1
              /\ new.repositories[Len(new.repositories)].name = last.name
              /\ \A i \in 1..Len(old.repositories) :
                    new.repositories[i] = old.repositories[i]

\* the first workspace ever was added and is the current one
C15_Witness ==
    /\ last.op = "add_workspace" /\ last.ret = "True"
    /\ prev = Absent
    /\ file.current = last.name
    /\ Len(file.repositories) = 1

\* the records of s with another name than n, in order
Others(s, n) == SelectSeq(s, LAMBDA e : e.name # n)

\* C30: save(entry) modifies only the record with the entry's name in the
\* current workspace: every other record the file held before the call, in
\* the current workspace and in every other one, is still stored unchanged
\* and in the same relative order after it, also when the read of the file
\* that precedes the write failed.
C30_SaveTouchesOneRecord ==
    last.op = "save" =>
        IF variant = "flat"
        THEN Others(FlatRepos(file), last.name) = Others(FlatRepos(prev), last.name)
        ELSE LET before == UpgradeConfig(prev)
                 after == UpgradeConfig(file).repositories
                 cur == GetCurrentRepository(before)
             IN
             \A k \in 1..Len(before.repositories) :
                 LET w == before.repositories[k] IN
                 /\ k <= Len(after)
                 /\ after[k].name = w.name
                 /\ IF w.name = cur.name
                    THEN Others(after[k].repos, last.name) = Others(w.repos, last.name)
                    ELSE after[k].repos = w.repos

\* C16: a legacy file {"repos": L} is one workspace, default and current,
\* with the collection L: load() returns L, and a save or delete that
\* follows writes the file in the multi-workspace form with that one
\* workspace, every record of L other than the one saved or deleted kept as
\* it was.
C16_LegacyUpgrade ==
    prev.kind = "legacy" =>
        /\ last.op = "load" => (last.ret = "ok" /\ last.out = prev.repos)
        /\ (last.op \in {"save", "delete"} /\ last.ret = "True") =>
              /\ file.kind = "multi"
              /\ Len(file.repositories) = 1
              /\ file.repositories[1].is_default
              /\ file.current = file.repositories[1].name
              /\ Others(file.repositories[1].repos, last.name)
                    = Others(prev.repos, last.name)
              /\ IF last.op = "save"
                 THEN last.entry \in Range(file.repositories[1].repos)
                 ELSE \A e \in Range(file.repositories[1].repos) :
                        e.name # last.name

\* a record of a legacy file of two records was saved again
C16_Witness ==
    /\ prev.kind = "legacy" /\ Len(prev.repos) = 2
    /\ last.op = "save" /\ last.ret = "True"
    /\ last.name = prev.repos[1].name
    /\ file.kind = "multi"

----------------------------------------------------------------------------
(* Properties of the command runners *)

\* C8: whenever a runner (streaming, buffered or direct) returns for a
\* command it launched, its success flag is true if and only if the child
\* exited with code zero, whatever the child wrote to stdout or stderr.
C8_SuccessIffExitZero ==
    (run.launch = "ok" /\ run.result = "returned") =>
        /\ run.child = "exited"
        /\ run.success <=> (run.code = 0)

\* the streaming runner returned success for a child that wrote to stdout
\* and to stderr and exited with zero
C8_Witness ==
    /\ run.kind = "streaming" /\ run.result = "returned"
    /\ run.wroteOut /\ run.wroteErr
    /\ run.code = 0 /\ run.success

\* a message that tells that the program was not found
SaysNotFound(msg) == msg \in {NotFoundMsg, Errno2Msg}

\* C9: when the program of the argument vector does not exist the runner
\* does not raise: it returns success = False with a message telling that
\* the command was not found, and no child exists.
C9_MissingProgram ==
    run.launch = "missing" =>
        /\ run.result = "returned"
        /\ ~run.success
        /\ SaysNotFound(run.msg)
        /\ run.child = "none"

\* the streaming runner was called with a program that does not exist
C9_Witness ==
    /\ run.kind = "streaming" /\ run.launch = "missing" /\ run.pc = "done"
    /\ run.msg = NotFoundMsg

\* the runner waits for the end of stdout, the child has written all of its
\* stdout and waits for room in the stderr pipe, which the runner reads only
\* after stdout has ended
PipeDeadlock ==
    /\ run.pc = "read_stdout" /\ run.outq = 0
    /\ run.child = "running" /\ run.outLeft = 0
    /\ run.errLeft > 0 /\ run.errq >= PipeCap

\* C11: the streaming runner never waits on stdout while the child waits
\* for its stderr pipe to be drained, so that a child that writes a finite
\* amount to both streams and exits always lets run_command return.
C11_NeverBlocksOnStdout ==
    run.kind = "streaming" => ~PipeDeadlock

\* the output text of a returned runner holds every chunk the child wrote
OutputHoldsAll ==
    run.gotOut = run.sentOut /\ run.gotErr = run.sentErr

\* a piped runner that has not returned can step, or its child can
Progresses ==
    \/ run.outq > 0 /\ run.pc \in {"read_stdout", "communicate"}
    \/ run.errq > 0 /\ run.pc \in {"read_stderr", "communicate"}
    \/ run.child = "exited"
    \/ run.outLeft > 0 /\ run.outq < PipeCap
    \/ run.errLeft > 0 /\ run.errq < PipeCap
    \/ run.outLeft = 0 /\ run.errLeft = 0

\* C12: for the same child the streaming and the buffered runner both
\* return, with the success flag "exit code is zero" and with an output
\* that holds everything the child wrote: neither of them is ever stuck
\* with the child, and a returned one has flag and output as said.
C12_RunnersAgree ==
    (run.kind \in {"streaming", "buffered"} /\ run.launch = "ok") =>
        /\ run.result = "none" => Progresses
        /\ run.result = "returned" =>
              (run.success <=> (run.code = 0)) /\ OutputHoldsAll

\* C10: whenever the streaming runner leaves through an exception after the
\* child was started, eventually the child is not running.
C10_NoChildLeftRunning ==
    (run.kind = "streaming" /\ run.result = "raised") ~> (run.child # "running")

====
